---- MODULE Spec2Model ----
(***************************************************************************)
(* Transport and log-streaming engine of harbor's docker package:          *)
(* the ring log buffer, the log stream worker (header stripping, chunk     *)
(* decoding, frame demultiplexing), the log stream session (start / stop)  *)
(* and the request executor with its reusable connection.                  *)
(*                                                                         *)
(* Bytes are naturals.  Sequences of bytes model []u8 / string; a slice    *)
(* data[a:b] of the source (0-based, b exclusive) is Slice(data, a, b).    *)
(***************************************************************************)
EXTENDS Integers, Sequences, FiniteSets, TLC

----------------------------------------------------------------------------
(* Bounds of the model *)

\* LOG_BUFFER_MAX_SIZE is 64 * 1024 in the source; the model runs the same
\* code on a small capacity so that wrap-around is reached.
LOG_BUFFER_MAX_SIZE == 5

\* longest single append tried on the bare ring buffer, beyond the capacity
RingOverrun == 2

\* most append calls made on the bare ring buffer
MaxRingAppends == 3

----------------------------------------------------------------------------
(* Byte sequences *)

\* data[a:b] of the source: bytes a .. b-1 (0-based)
Slice(s, a, b) == [i \in 1..(b - a) |-> s[a + i]]

\* the last n bytes of s (all of s when it is shorter)
LastN(s, n) == IF Len(s) <= n THEN s ELSE Slice(s, Len(s) - n, Len(s))

RECURSIVE Flatten(_)
Flatten(ss) == IF ss = <<>> THEN <<>> ELSE Head(ss) \o Flatten(Tail(ss))

----------------------------------------------------------------------------
(* Ring Log Buffer: LogBuffer, append_to_log_buffer, get_log_content *)

\* LogBuffer{}: zeroed storage, write_pos 0, length 0
EmptyLogBuffer ==
  [data |-> [i \in 0..(LOG_BUFFER_MAX_SIZE - 1) |-> 0], write_pos |-> 0, length |-> 0]

\* PutByte with the length check off by one ("length < LOG_BUFFER_MAX_SIZE - 1")
PutByte_LengthOffByOne(buf, b) ==
  [data      |-> [buf.data EXCEPT ![buf.write_pos] = b],
   write_pos |-> (buf.write_pos + 1) % LOG_BUFFER_MAX_SIZE,
   length    |-> IF buf.length < LOG_BUFFER_MAX_SIZE - 1 THEN buf.length + 1 ELSE buf.length]

\* PutByte that never advances write_pos
PutByte_NoAdvance(buf, b) ==
  [data      |-> [buf.data EXCEPT ![buf.write_pos] = b],
   write_pos |-> buf.write_pos,
   length    |-> IF buf.length < LOG_BUFFER_MAX_SIZE THEN buf.length + 1 ELSE buf.length]

\* PutByte whose write_pos runs on past the capacity
PutByte_NoWrap(buf, b) ==
  [data      |-> [buf.data EXCEPT ![buf.write_pos] = b],
   write_pos |-> buf.write_pos + 1,
   length    |-> IF buf.length < LOG_BUFFER_MAX_SIZE THEN buf.length + 1 ELSE buf.length]

\* one iteration of the loop of append_to_log_buffer
PutByte(buf, b) ==
  [data      |-> [buf.data EXCEPT ![buf.write_pos] = b],
   write_pos |-> (buf.write_pos + 1) % LOG_BUFFER_MAX_SIZE,
   length    |-> IF buf.length < LOG_BUFFER_MAX_SIZE THEN buf.length + 1 ELSE buf.length]

RECURSIVE PutBytes(_, _)
PutBytes(buf, d) == IF d = <<>> THEN buf ELSE PutBytes(PutByte(buf, Head(d)), Tail(d))

\* the buffer after append_to_log_buffer(d)
append_to_log_buffer(buf, d) == IF Len(d) = 0 THEN buf ELSE PutBytes(buf, d)

\* an append_to_log_buffer that never sets the dirty flag
changed_after_append_never(flag, d) == flag

\* the dirty flag after append_to_log_buffer(d): an empty append returns early
changed_after_append(flag, d) == IF Len(d) = 0 THEN flag ELSE TRUE

\* get_log_content that copies a wrapped buffer from offset 0 instead of write_pos
get_log_content_unrotated(buf) == [i \in 1..buf.length |-> buf.data[i - 1]]

\* get_log_content
get_log_content(buf) ==
  IF buf.length = 0 THEN <<>>
  ELSE IF buf.length < LOG_BUFFER_MAX_SIZE
       THEN [i \in 1..buf.length |-> buf.data[i - 1]]
       ELSE LET first_part_len == LOG_BUFFER_MAX_SIZE - buf.write_pos
            IN [i \in 1..LOG_BUFFER_MAX_SIZE |->
                  IF i <= first_part_len
                    THEN buf.data[buf.write_pos + i - 1]
                    ELSE buf.data[i - first_part_len - 1]]

----------------------------------------------------------------------------
(* Log stream worker: the pure steps of log_stream_thread_proc *)

CR == 13
LF == 10

MinOf(S) == CHOOSE x \in S : \A y \in S : x <= y

\* strings.contains(s, pat)
Contains(s, pat) ==
  \E i \in 0..(Len(s) - Len(pat)) : \A j \in 1..Len(pat) : s[i + j] = pat[j]

\* "Transfer-Encoding: chunked" and "transfer-encoding: chunked"
TransferEncodingChunked ==
  <<84, 114, 97, 110, 115, 102, 101, 114, 45, 69, 110, 99, 111, 100, 105, 110, 103,
    58, 32, 99, 104, 117, 110, 107, 101, 100>>
TransferEncodingChunkedLower ==
  <<116, 114, 97, 110, 115, 102, 101, 114, 45, 101, 110, 99, 111, 100, 105, 110, 103,
    58, 32, 99, 104, 117, 110, 107, 101, 100>>

\* the is_chunked test of log_stream_thread_proc
header_is_chunked(header_str) ==
  \/ Contains(header_str, TransferEncodingChunked)
  \/ Contains(header_str, TransferEncodingChunkedLower)

\* a find_header_end that stops between the two CRLFs of the blank line
find_header_end_inside_blank_line(data) ==
  IF Len(data) < 4 THEN -1
  ELSE LET hits == {i \in 0..(Len(data) - 4) :
                      /\ data[i + 1] = CR /\ data[i + 2] = LF
                      /\ data[i + 3] = CR /\ data[i + 4] = LF}
       IN IF hits = {} THEN -1 ELSE MinOf(hits) + 2

\* find_header_end: the offset just after the first "\r\n\r\n", or -1
find_header_end(data) ==
  IF Len(data) < 4 THEN -1
  ELSE LET hits == {i \in 0..(Len(data) - 4) :
                      /\ data[i + 1] = CR /\ data[i + 2] = LF
                      /\ data[i + 3] = CR /\ data[i + 4] = LF}
       IN IF hits = {} THEN -1 ELSE MinOf(hits) + 4

\* the value parse_hex adds for one character (0 for a character that is no hex digit)
HexDigit(c) ==
  IF c >= 48 /\ c <= 57 THEN c - 48
  ELSE IF c >= 97 /\ c <= 102 THEN c - 97 + 10
  ELSE IF c >= 65 /\ c <= 70 THEN c - 65 + 10
  ELSE 0

\* parse_hex
RECURSIVE parse_hex_from(_, _)
parse_hex_from(result, s) ==
  IF s = <<>> THEN result ELSE parse_hex_from(result * 16 + HexDigit(Head(s)), Tail(s))

\* the hex digits a 64-bit int keeps: "result *= 16" shifts the older ones out
INT_HEX_DIGITS == 16

\* chunk sizes from here up are all larger than any data the model holds
ChunkSizeCap == 67108864

\* stands for the largest int, 2^63 - 1
ModelIntMax == 1073741823

\* parse_hex, the 64-bit result on the model's scale: exact below
\* ChunkSizeCap; ChunkSizeCap for the larger positive results; the results
\* within 255 of the largest int keep their distance from it; -1 is itself and
\* -2 stands for every other result whose sign bit is set
parse_hex(s) ==
  LET kept == LastN(s, INT_HEX_DIGITS)
      high == Len(kept) - 7
      low  == parse_hex_from(0, LastN(kept, 7))
  IN IF Len(kept) = INT_HEX_DIGITS /\ HexDigit(kept[1]) >= 8
       THEN IF \A i \in 1..INT_HEX_DIGITS : HexDigit(kept[i]) = 15 THEN -1 ELSE -2
     ELSE IF /\ Len(kept) = INT_HEX_DIGITS
             /\ HexDigit(kept[1]) = 7
             /\ \A i \in 2..(INT_HEX_DIGITS - 2) : HexDigit(kept[i]) = 15
       THEN ModelIntMax - (255 - parse_hex_from(0, LastN(kept, 2)))
     ELSE IF \E i \in 1..high : HexDigit(kept[i]) # 0 THEN ChunkSizeCap
     ELSE IF low >= ChunkSizeCap THEN ChunkSizeCap
     ELSE low

\* a + b on the model's scale: a sum past the largest int wraps to a negative int
int_add(a, b) == IF a + b > ModelIntMax THEN 0 - ChunkSizeCap ELSE a + b

\* frame_size_at reading the four bytes little endian
frame_size_at_little_endian(data, offset) ==
  data[offset + 8] * 16777216 + data[offset + 7] * 65536
    + data[offset + 6] * 256 + data[offset + 5]

\* the frame size read from bytes 4..7 of the header at offset (big endian)
frame_size_at(data, offset) ==
  data[offset + 5] * 16777216 + data[offset + 6] * 65536
    + data[offset + 7] * 256 + data[offset + 8]

\* process_docker_frames: the payloads it hands to append_to_log_buffer, in order
RECURSIVE docker_frames_from(_, _)
docker_frames_from(data, offset) ==
  IF ~(offset + 8 <= Len(data)) THEN <<>>
  ELSE LET frame_size == frame_size_at(data, offset)
       IN IF offset + 8 + frame_size > Len(data)
            THEN <<>>
            ELSE <<Slice(data, offset + 8, offset + 8 + frame_size)>>
                   \o docker_frames_from(data, offset + 8 + frame_size)

process_docker_frames(data) == docker_frames_from(data, 0)

\* the bounds check of the slice expression data[lo:hi]
slice_in_bounds(data, lo, hi) == 0 <= lo /\ lo <= hi /\ hi <= Len(data)

\* the loop of process_chunked_log_data: the final offset and frame_buffer;
\* fault: the bounds check of "data[chunk_start:chunk_end]" failed, which
\* aborts the program
RECURSIVE chunk_loop(_, _, _)
chunk_loop(data, offset, frame_buffer) ==
  IF ~(offset < Len(data))
    THEN [offset |-> offset, frame_buffer |-> frame_buffer, fault |-> FALSE]
  ELSE LET ends == {i \in offset..(Len(data) - 2) : data[i + 1] = CR /\ data[i + 2] = LF}
       IN IF ends = {}
            THEN [offset |-> offset, frame_buffer |-> frame_buffer, fault |-> FALSE]
            ELSE LET chunk_line_end == MinOf(ends)
                     chunk_size  == parse_hex(Slice(data, offset, chunk_line_end))
                     chunk_start == chunk_line_end + 2
                     chunk_end   == int_add(chunk_start, chunk_size)
                 IN IF chunk_size = 0
                      THEN [offset |-> chunk_line_end + 2, frame_buffer |-> frame_buffer,
                            fault |-> FALSE]
                    ELSE IF int_add(chunk_end, 2) > Len(data)
                      THEN [offset |-> offset, frame_buffer |-> frame_buffer,
                            fault |-> FALSE]
                    ELSE IF ~slice_in_bounds(data, chunk_start, chunk_end)
                      THEN [offset |-> offset, frame_buffer |-> frame_buffer,
                            fault |-> TRUE]
                    ELSE chunk_loop(data, chunk_end + 2,
                                    frame_buffer \o Slice(data, chunk_start, chunk_end))

\* chunked_remaining that clears the data whenever no chunk was consumed
chunked_remaining_dropping(data, offset) ==
  IF offset > 0 /\ offset < Len(data) THEN Slice(data, offset, Len(data)) ELSE <<>>

\* the data process_chunked_log_data keeps for the next receive
chunked_remaining(data, offset) ==
  IF offset > 0 /\ offset < Len(data) THEN Slice(data, offset, Len(data))
  ELSE IF offset >= Len(data) THEN <<>>
  ELSE data

\* process_chunked_log_data: the payloads appended and the data kept
process_chunked_log_data(data) ==
  LET r == chunk_loop(data, 0, <<>>)
  IN IF r.fault
       THEN [payloads |-> <<>>, data |-> data, fault |-> TRUE]
       ELSE [payloads |-> IF Len(r.frame_buffer) > 0
                            THEN process_docker_frames(r.frame_buffer)
                            ELSE <<>>,
             data     |-> chunked_remaining(data, r.offset),
             fault    |-> FALSE]

\* the raw branch of the worker loop: process_log_frames, then clear(&partial_data)
process_raw_log_data(data) ==
  [payloads |-> process_docker_frames(data), data |-> <<>>, fault |-> FALSE]

\* the body of one iteration of the worker loop after a successful receive of
\* bytes, on the thread's locals w: the locals after it, with the payloads to append
worker_iteration(w, bytes) ==
  LET acc        == w.partial_data \o bytes
      header_end == find_header_end(acc)
  IN IF ~w.header_skipped /\ header_end = -1
       THEN [w EXCEPT !.partial_data = acc, !.pending = <<>>]
       ELSE LET chunked == IF w.header_skipped THEN w.is_chunked
                           ELSE header_is_chunked(Slice(acc, 0, header_end))
                body    == IF w.header_skipped THEN acc
                           ELSE Slice(acc, header_end, Len(acc))
                done    == IF chunked THEN process_chunked_log_data(body)
                           ELSE process_raw_log_data(body)
            IN [w EXCEPT !.header_skipped = TRUE, !.is_chunked = chunked,
                         !.partial_data = done.data, !.pending = done.payloads,
                         !.fault = done.fault]

\* the buffer after the payloads were appended in order
RECURSIVE append_all(_, _)
append_all(buf, payloads) ==
  IF payloads = <<>> THEN buf
  ELSE append_all(append_to_log_buffer(buf, Head(payloads)), Tail(payloads))

----------------------------------------------------------------------------
(* State *)

VARIABLES
  log_stream,             \* LogStreamState: container_id, container_name, socket, thread, running, buffer
  log_content_changed,    \* the dirty flag
  global_connection,      \* the request/response socket (0 is Socket{})
  connection_established,
  sockets,                \* the OS side of every socket handle, and the daemon's bytes for it
  threads,                \* the worker threads: position and locals of log_stream_thread_proc
  caller,                 \* the caller thread: position and locals inside start / stop
  req,                    \* the caller thread inside send_http_request: its locals
  appended,               \* history: every byte appended since the buffer was last reset
  appendLog,              \* history: the payload of each append_to_log_buffer call of the session
  snap,                   \* the last result of get_log_content
  snapOf,                 \* history: the value of appended when snap was taken
  json,                   \* the last extract_json_from_response call: its input and results
  poll,                   \* the last has_log_content_changed call: its result, and history
  calls                   \* history: how many calls of each kind the caller has made

vars == <<log_stream, log_content_changed, global_connection, connection_established,
          sockets, threads, caller, req, appended, appendLog, snap, snapOf, json, poll,
          calls>>

connVars  == <<global_connection, connection_established>>
ringHist  == <<appended, appendLog>>
snapVars  == <<snap, snapOf, json, poll>>

\* most sockets the engine opens in one run, and most worker threads it creates
MaxSockets == 3
MaxThreads == 2

NoSocket == 0     \* Socket{}
NoThread == 0     \* nil

SocketIds == 1..MaxSockets
ThreadIds == 1..MaxThreads

\* what the daemon sends on one streaming connection: the chunks (each a
\* sequence of frames), whether the body is chunk-encoded and ends with the
\* zero-size chunk, the resulting bytes and the role of each byte
NoScenario ==
  [chunked |-> FALSE, terminal |-> FALSE, chunks |-> <<>>, bytes |-> <<>>, tags |-> <<>>]

\* a socket handle as the OS and the daemon see it: rx are the bytes still to
\* be delivered to the engine, eof that the daemon has closed its end, cuts the
\* kinds of places at which receive calls have split the stream so far
UnusedSocket ==
  [state |-> "unused", kind |-> "none", closes |-> 0, rx |-> <<>>, eof |-> FALSE,
   sc |-> NoScenario, cuts |-> {}]

UnbornThread ==
  [pc |-> "unborn", header_skipped |-> FALSE, is_chunked |-> FALSE,
   partial_data |-> <<>>, pending |-> <<>>, fault |-> FALSE]

IdleCaller ==
  [pc |-> "idle", ret |-> "idle", sock |-> NoSocket, id |-> "", name |-> "",
   restart |-> FALSE, oldSock |-> NoSocket, oldThread |-> NoThread, result |-> "none"]

\* what the sockets do during one send_http_request call: per attempt,
\* whether a connect succeeds, whether the send succeeds and the bytes the
\* daemon answers with before it closes the connection
NoPlan == [connect |-> <<>>, send |-> <<>>, resp |-> <<>>]

IdleReq ==
  [attempt |-> 0, sock |-> NoSocket, response_builder |-> <<>>, total_read |-> 0,
   response |-> <<>>, ok |-> FALSE,
   plan |-> NoPlan, reused |-> FALSE, opens |-> 0, sends |-> 0, recvs |-> 0, fails |-> 0]

\* the state after program start: the zero-initialised globals of the package
\* no extract_json_from_response call yet
NoJson ==
  [input |-> [kind |-> "none", J |-> <<>>, chunked |-> FALSE, trailer |-> <<>>,
              bytes |-> <<>>],
   calls |-> 0, json_body |-> <<>>, ok |-> FALSE, again_body |-> <<>>, again_ok |-> FALSE]

\* no has_log_content_changed call yet
NoPoll == [calls |-> 0, ret |-> FALSE, prev_ret |-> FALSE, seen |-> 0, prev_seen |-> 0]

Init ==
  /\ log_stream = [container_id |-> "", container_name |-> "", socket |-> NoSocket,
                   thread |-> NoThread, running |-> FALSE, buffer |-> EmptyLogBuffer,
                   mutex |-> "free"]
  /\ log_content_changed = FALSE
  /\ global_connection = NoSocket
  /\ connection_established = FALSE
  /\ sockets = [s \in SocketIds |-> UnusedSocket]
  /\ threads = [t \in ThreadIds |-> UnbornThread]
  /\ caller = IdleCaller
  /\ req = IdleReq
  /\ appended = <<>>
  /\ appendLog = <<>>
  /\ snap = <<>>
  /\ snapOf = <<>>
  /\ json = NoJson
  /\ poll = NoPoll
  /\ calls = [start |-> 0, started |-> 0, stop |-> 0, noops |-> 0, request |-> 0,
              reset_noops |-> 0, snapshot |-> 0, fetch |-> 0, fetched |-> 0]

----------------------------------------------------------------------------
(* The daemon's side of a streaming connection: the wire format *)

CRLF == <<CR, LF>>

Tagged(bytes, tag) == [i \in 1..Len(bytes) |-> tag]

\* "HTTP/1.1 200 OK"
StatusLine == <<72, 84, 84, 80, 47, 49, 46, 49, 32, 50, 48, 48, 32, 79, 75>>

HeaderBlock(chunked) ==
  StatusLine \o CRLF \o (IF chunked THEN TransferEncodingChunked \o CRLF ELSE <<>>) \o CRLF

\* a frame: 1 byte stream type, 3 zero bytes, 4 bytes big-endian length, the payload
FrameBytes(f) ==
  <<f.type, 0, 0, 0, 0, 0, Len(f.payload) \div 256, Len(f.payload) % 256>> \o f.payload

FrameTags(f) == Tagged(<<0, 0, 0, 0, 0, 0, 0, 0>>, "F") \o Tagged(f.payload, "P")

RECURSIVE FramesBytes(_)
FramesBytes(fs) == IF fs = <<>> THEN <<>> ELSE FrameBytes(Head(fs)) \o FramesBytes(Tail(fs))

RECURSIVE FramesTags(_)
FramesTags(fs) == IF fs = <<>> THEN <<>> ELSE FrameTags(Head(fs)) \o FramesTags(Tail(fs))

HexChar(d) == IF d < 10 THEN 48 + d ELSE 87 + d

HexDigits(n) == IF n < 16 THEN <<HexChar(n)>> ELSE <<HexChar(n \div 16), HexChar(n % 16)>>

\* a chunk: "<hex size>\r\n<bytes>\r\n"
ChunkBytes(fs) ==
  HexDigits(Len(FramesBytes(fs))) \o CRLF \o FramesBytes(fs) \o CRLF

ChunkTags(fs) ==
  Tagged(HexDigits(Len(FramesBytes(fs))), "S") \o <<"R", "N">> \o FramesTags(fs) \o <<"r", "n">>

RECURSIVE ChunksBytes(_)
ChunksBytes(cs) == IF cs = <<>> THEN <<>> ELSE ChunkBytes(Head(cs)) \o ChunksBytes(Tail(cs))

RECURSIVE ChunksTags(_)
ChunksTags(cs) == IF cs = <<>> THEN <<>> ELSE ChunkTags(Head(cs)) \o ChunksTags(Tail(cs))

\* "0\r\n\r\n"
ZeroChunk == <<48>> \o CRLF \o CRLF

\* a chunk-encoded streaming response: every chunk carries whole frames
ChunkedScenario(cs, terminal) ==
  [chunked  |-> TRUE,
   terminal |-> terminal,
   chunks   |-> cs,
   bytes    |-> HeaderBlock(TRUE) \o ChunksBytes(cs) \o (IF terminal THEN ZeroChunk ELSE <<>>),
   tags     |-> Tagged(HeaderBlock(TRUE), "H") \o ChunksTags(cs)
                  \o (IF terminal THEN Tagged(ZeroChunk, "Z") ELSE <<>>)]

\* a raw streaming response: the frames follow the header block directly
RawScenario(fs) ==
  [chunked  |-> FALSE,
   terminal |-> FALSE,
   chunks   |-> <<fs>>,
   bytes    |-> HeaderBlock(FALSE) \o FramesBytes(fs),
   tags     |-> Tagged(HeaderBlock(FALSE), "H") \o FramesTags(fs)]

Frame(type, payload) == [type |-> type, payload |-> payload]

\* the frames of a scenario in order, and their payloads
FramesOf(sc) == Flatten(sc.chunks)

PayloadsOf(sc) == [i \in 1..Len(FramesOf(sc)) |-> FramesOf(sc)[i].payload]

\* the kind of place at which a receive boundary falls when it comes after
\* the first pos bytes of the scenario
CutKind(sc, pos) ==
  IF pos <= 0 \/ pos >= Len(sc.bytes) THEN "none"
  ELSE LET a == sc.tags[pos]
           b == sc.tags[pos + 1]
       IN IF a = "H" /\ b = "H"
            THEN IF pos + 4 > Len(sc.tags) \/ sc.tags[pos + 4] # "H"
                   THEN "terminator" ELSE "header"
          ELSE IF a = "S" /\ b = "S" THEN "size"
          ELSE IF a = "R" /\ b = "N" THEN "crlf"
          ELSE IF a = "F" /\ b = "F" THEN "frameheader"
          ELSE IF b = "P" THEN "payload"
          ELSE IF a \in {"F", "P"} /\ b = "r" THEN "trailer"
          ELSE IF a = "n" /\ b = "S" THEN "chunk"
          ELSE "none"

\* "hello", and a few short texts
Hello == <<104, 101, 108, 108, 111>>

\* the streaming responses the daemon answers with
RawScenarios ==
  { RawScenario(<<Frame(1, <<97, 98>>), Frame(2, <<99>>)>>),
    \* binary output: a payload of NUL bytes
    RawScenario(<<Frame(1, <<0, 0, 0>>), Frame(1, <<97>>)>>) }

ChunkedScenarios ==
  { ChunkedScenario(<< <<Frame(0, Hello)>> >>, TRUE),
    ChunkedScenario(<< <<Frame(1, <<97, 98>>)>>, <<Frame(2, <<99>>)>> >>, TRUE),
    ChunkedScenario(<< <<Frame(1, <<97>>), Frame(1, <<98, 99>>)>> >>, FALSE) }

StreamScenarios == RawScenarios \cup ChunkedScenarios

----------------------------------------------------------------------------
(* The ring buffer on its own: appends and snapshots on a freshly reset buffer *)

\* The buffer never inspects the bytes it stores, so the k-th byte appended is
\* given the value k: any loss, duplication or reordering shows in a snapshot.
RingInputs(k) ==
  {[i \in 1..n |-> k + i] : n \in 0..(LOG_BUFFER_MAX_SIZE + RingOverrun)}

MaxRingTotal == LOG_BUFFER_MAX_SIZE + RingOverrun + 1

\* append_to_log_buffer(d), under the mutex
RingAppend ==
  \E d \in RingInputs(Len(appended)) :
    /\ Len(appended) + Len(d) <= MaxRingTotal
    /\ Len(appendLog) < MaxRingAppends
    /\ log_stream' = [log_stream EXCEPT !.buffer = append_to_log_buffer(@, d)]
    /\ log_content_changed' = changed_after_append(log_content_changed, d)
    /\ appended' = appended \o d
    /\ appendLog' = Append(appendLog, d)
    /\ UNCHANGED <<connVars, sockets, threads, caller, req, snapVars, calls>>

\* the caller takes a snapshot: get_log_content(), under the mutex
CallGetLogContent ==
  /\ caller.pc = "idle"
  /\ snap' = get_log_content(log_stream.buffer)
  /\ snapOf' = appended
  /\ calls' = [calls EXCEPT !.snapshot = 1]
  /\ UNCHANGED <<log_stream, log_content_changed, connVars, sockets, threads, caller,
                 req, ringHist, json, poll>>

NextRing == RingAppend \/ CallGetLogContent

SpecRing == Init /\ [][NextRing]_vars

\* C1: on a freshly reset buffer, while the appended bytes total at most the
\* capacity (exactly the capacity included), a snapshot is exactly the
\* concatenation of all appended bytes in append order.
C1_NoWrapSnapshotIsConcatenation ==
  (calls.snapshot = 1 /\ Len(snapOf) <= LOG_BUFFER_MAX_SIZE) => snap = snapOf

\* a snapshot taken when exactly LOG_BUFFER_MAX_SIZE bytes were appended, in more than one append
C1_Witness ==
  /\ calls.snapshot = 1
  /\ Len(snapOf) = LOG_BUFFER_MAX_SIZE
  /\ Len(appendLog) >= 2
  /\ snap = snapOf

\* C2: once more than the capacity has been appended (in appends of any size,
\* a single append longer than the capacity included), a snapshot is exactly
\* the last LOG_BUFFER_MAX_SIZE appended bytes, oldest first.
C2_WrappedSnapshotIsLastBytes ==
  (calls.snapshot = 1 /\ Len(snapOf) > LOG_BUFFER_MAX_SIZE)
     => snap = LastN(snapOf, LOG_BUFFER_MAX_SIZE)

\* a snapshot taken after one single append longer than the capacity
C2_Witness ==
  /\ calls.snapshot = 1
  /\ Len(appendLog) = 1
  /\ Len(snapOf) > LOG_BUFFER_MAX_SIZE
  /\ snapOf = appended
  /\ snap = LastN(snapOf, LOG_BUFFER_MAX_SIZE)

----------------------------------------------------------------------------
(* Sockets: connect_docker_socket, close_socket *)

FreeSockets == {s \in SocketIds : sockets[s].state = "unused"}
FreeThreads == {t \in ThreadIds : threads[t].pc = "unborn"}

\* the socket table after connect_docker_socket succeeded with handle s
Connected(s, kind, sc) ==
  [sockets EXCEPT ![s] = [state |-> "open", kind |-> kind, closes |-> 0, rx |-> sc.bytes,
                          eof |-> FALSE, sc |-> sc, cuts |-> {}]]

\* a close that also closes the Connection Manager's socket
close_socket_and_global(socks, s) ==
  [x \in SocketIds |->
     IF x \in {s, global_connection}
       THEN [socks[x] EXCEPT !.state = "closed", !.closes = @ + 1]
       ELSE socks[x]]

\* the socket table after close_socket(s) / close_socket_connection(s)
close_socket(socks, s) ==
  IF s \in SocketIds
    THEN [socks EXCEPT ![s].state = "closed", ![s].closes = @ + 1]
    ELSE socks

\* the daemon closes its end of a streaming connection
DaemonClose ==
  \E s \in SocketIds :
    /\ sockets[s].kind = "stream"
    /\ sockets[s].state = "open"
    /\ ~sockets[s].eof
    /\ sockets' = [sockets EXCEPT ![s].eof = TRUE]
    /\ UNCHANGED <<log_stream, log_content_changed, connVars, threads, caller, req,
                   ringHist, snapVars, calls>>

----------------------------------------------------------------------------
(* Log stream session, caller side: start_log_stream, stop_log_stream *)

Containers == {[id |-> "c1", name |-> "web"], [id |-> "c2", name |-> "db"]}

\* the caller calls start_log_stream(container_id, container_name)
CallStart(maxStarts, containers) ==
  \E c \in containers :
    /\ caller.pc = "idle"
    /\ calls.start < maxStarts
    /\ caller' = [IdleCaller EXCEPT !.pc = "start_61", !.id = c.id, !.name = c.name]
    /\ calls' = [calls EXCEPT !.start = @ + 1, !.noops = 0]
    /\ UNCHANGED <<log_stream, log_content_changed, connVars, sockets, threads, req,
                   ringHist, snapVars>>

\* start_log_stream: "if log_stream.running { stop_log_stream() }"
StartCheckRunning ==
  /\ caller.pc = "start_61"
  /\ caller' = IF log_stream.running
                 THEN [caller EXCEPT !.pc = "stop_97", !.ret = "start_66", !.restart = TRUE,
                                     !.oldSock = log_stream.socket,
                                     !.oldThread = log_stream.thread]
                 ELSE [caller EXCEPT !.pc = "start_66"]
  /\ UNCHANGED <<log_stream, log_content_changed, connVars, sockets, threads, req,
                 ringHist, snapVars, calls>>

\* the caller calls stop_log_stream()
CallStop(maxStops) ==
  /\ caller.pc = "idle"
  /\ calls.stop < maxStops
  /\ caller' = [IdleCaller EXCEPT !.pc = "stop_97", !.ret = "idle"]
  /\ calls' = [calls EXCEPT !.stop = @ + 1]
  /\ UNCHANGED <<log_stream, log_content_changed, connVars, sockets, threads, req,
                 ringHist, snapVars>>

\* a stop_log_stream that tears down whether or not a session is running
stop_entry_unguarded(running, ret) == "stop_102"

\* where stop_log_stream goes from its first line: it returns when not running
stop_entry(running, ret) == IF ~running THEN ret ELSE "stop_102"

\* stop_log_stream: "if !log_stream.running { return }"
StopCheckRunning ==
  /\ caller.pc = "stop_97"
  /\ caller' = [caller EXCEPT !.pc = stop_entry(log_stream.running, caller.ret),
                              !.result = IF ~log_stream.running /\ caller.ret = "idle"
                                           THEN "stop_noop" ELSE @]
  /\ calls' = [calls EXCEPT !.noops = IF ~log_stream.running /\ caller.ret = "idle"
                                        THEN @ + 1 ELSE 0]
  /\ UNCHANGED <<log_stream, log_content_changed, connVars, sockets, threads, req,
                 ringHist, snapVars>>

\* stop_log_stream: "log_stream.running = false"
StopClearRunning ==
  /\ caller.pc = "stop_102"
  /\ log_stream' = [log_stream EXCEPT !.running = FALSE]
  /\ caller' = [caller EXCEPT !.pc = "stop_105"]
  /\ UNCHANGED <<log_content_changed, connVars, sockets, threads, req, ringHist,
                 snapVars, calls>>

\* stop_log_stream: "close_socket_connection(log_stream.socket)"
StopCloseSocket ==
  /\ caller.pc = "stop_105"
  /\ sockets' = close_socket(sockets, log_stream.socket)
  /\ caller' = [caller EXCEPT !.pc = "stop_108"]
  /\ UNCHANGED <<log_stream, log_content_changed, connVars, threads, req, ringHist,
                 snapVars, calls>>

\* stop_log_stream: join and destroy the thread (the join blocks until the
\* thread procedure has returned)
StopJoin ==
  /\ caller.pc = "stop_108"
  /\ log_stream.thread # NoThread => threads[log_stream.thread].pc = "done"
  /\ log_stream' = [log_stream EXCEPT !.thread = NoThread]
  /\ caller' = [caller EXCEPT !.pc = "stop_115"]
  /\ UNCHANGED <<log_content_changed, connVars, sockets, threads, req, ringHist,
                 snapVars, calls>>

\* stop_log_stream: delete and clear the strings, return
StopCleanStrings ==
  /\ caller.pc = "stop_115"
  /\ log_stream' = [log_stream EXCEPT !.container_id = "", !.container_name = ""]
  /\ caller' = [caller EXCEPT !.pc = caller.ret,
                              !.result = IF caller.ret = "idle" THEN "stopped" ELSE @]
  /\ UNCHANGED <<log_content_changed, connVars, sockets, threads, req, ringHist,
                 snapVars, calls>>

\* start_log_stream: create_docker_connection() and remove_socket_timeout(sock);
\* the daemon answers the connection with one of the scenarios
StartConnect(scenarios) ==
  /\ caller.pc = "start_66"
  /\ \E sock_ok \in BOOLEAN, sc \in scenarios :
       IF sock_ok /\ FreeSockets # {}
         THEN /\ sockets' = Connected(MinOf(FreeSockets), "stream", sc)
              /\ caller' = [caller EXCEPT !.pc = "start_76", !.sock = MinOf(FreeSockets)]
         ELSE /\ sockets' = sockets
              /\ caller' = [caller EXCEPT !.pc = "idle", !.result = "start_failed"]
  /\ UNCHANGED <<log_stream, log_content_changed, connVars, threads, req, ringHist,
                 snapVars, calls>>

\* a start that leaves the buffer of the session before as it is
buffer_after_start_kept(buffer) == buffer

\* start_log_stream: "log_stream.buffer = LogBuffer{}"
buffer_after_start(buffer) == EmptyLogBuffer

\* start_log_stream: "Initialize state": the strings, the socket, running = true
\* and the buffer reset to LogBuffer{}
StartInitState ==
  /\ caller.pc = "start_76"
  /\ log_stream' = [log_stream EXCEPT !.container_id = caller.id,
                                      !.container_name = caller.name,
                                      !.socket = caller.sock,
                                      !.running = TRUE,
                                      !.buffer = buffer_after_start(@)]
  /\ appended' = <<>>
  /\ appendLog' = <<>>
  /\ caller' = [caller EXCEPT !.pc = "start_83"]
  /\ UNCHANGED <<log_content_changed, connVars, sockets, threads, req, snapVars, calls>>

\* start_log_stream: thread.create and thread.start, or the failure path
StartSpawn ==
  /\ caller.pc = "start_83"
  /\ \E create_ok \in BOOLEAN :
       IF create_ok /\ FreeThreads # {}
         THEN /\ log_stream' = [log_stream EXCEPT !.thread = MinOf(FreeThreads)]
              /\ threads' = [threads EXCEPT ![MinOf(FreeThreads)].pc = "send"]
              /\ sockets' = sockets
              /\ caller' = [caller EXCEPT !.pc = "idle", !.result = "started"]
              /\ calls' = [calls EXCEPT !.started = @ + 1]
         ELSE /\ log_stream' = [log_stream EXCEPT !.thread = NoThread, !.running = FALSE]
              /\ threads' = threads
              /\ sockets' = close_socket(sockets, caller.sock)
              /\ caller' = [caller EXCEPT !.pc = "idle", !.result = "start_failed"]
              /\ calls' = calls
  /\ UNCHANGED <<log_content_changed, connVars, req, ringHist, snapVars>>

----------------------------------------------------------------------------
(* Log stream session, worker side: log_stream_thread_proc *)

RECV_BUFFER_SIZE == 4096

\* send_data_on_socket(log_stream.socket, request): a failure ends the thread
WorkerSend ==
  \E t \in ThreadIds, sent \in BOOLEAN :
    /\ threads[t].pc = "send"
    /\ LET s       == log_stream.socket
           send_ok == sent /\ s \in SocketIds /\ sockets[s].state = "open"
       IN /\ threads' = [threads EXCEPT ![t].pc = IF send_ok THEN "loop" ELSE "return"]
          /\ log_stream' = IF send_ok THEN log_stream
                           ELSE [log_stream EXCEPT !.running = FALSE]
    /\ UNCHANGED <<log_content_changed, connVars, sockets, caller, req, ringHist,
                   snapVars, calls>>

\* "for log_stream.running"
WorkerLoop ==
  \E t \in ThreadIds :
    /\ threads[t].pc = "loop"
    /\ threads' = [threads EXCEPT ![t].pc = IF log_stream.running THEN "recv" ELSE "exit"]
    /\ UNCHANGED <<log_stream, log_content_changed, connVars, sockets, caller, req,
                   ringHist, snapVars, calls>>

\* receive_data_from_socket returns n bytes, which the iteration processes;
\* fragmented: the transport may deliver the waiting bytes in several receives
WorkerReceive(fragmented) ==
  \E t \in ThreadIds :
    /\ threads[t].pc = "recv"
    /\ log_stream.socket \in SocketIds
    /\ LET s  == log_stream.socket
           rx == sockets[s].rx
       IN /\ sockets[s].state = "open"
          /\ rx # <<>>
          /\ \E n \in (IF fragmented THEN 1..Len(rx) ELSE {Len(rx)}) :
               /\ n <= RECV_BUFFER_SIZE
               /\ LET w == worker_iteration(threads[t], SubSeq(rx, 1, n))
                  IN threads' = [threads EXCEPT ![t] =
                                   [w EXCEPT !.pc = IF w.fault THEN "aborted"
                                                    ELSE IF w.pending = <<>> THEN "loop"
                                                    ELSE "append"]]
               /\ sockets' = [sockets EXCEPT
                                ![s].rx = SubSeq(rx, n + 1, Len(rx)),
                                ![s].cuts = @ \cup
                                  ({CutKind(sockets[s].sc,
                                            Len(sockets[s].sc.bytes) - Len(rx) + n)}
                                     \ {"none", "header"})]
    /\ UNCHANGED <<log_stream, log_content_changed, connVars, caller, req, ringHist,
                   snapVars, calls>>

\* receive_data_from_socket returns zero bytes (the daemon closed the stream)
\* or fails (the handle was closed): "break"
WorkerReceiveEnd ==
  \E t \in ThreadIds :
    /\ threads[t].pc = "recv"
    /\ LET s == log_stream.socket
       IN \/ s \notin SocketIds
          \/ sockets[s].state # "open"
          \/ sockets[s].rx = <<>> /\ sockets[s].eof
    /\ threads' = [threads EXCEPT ![t].pc = "exit"]
    /\ UNCHANGED <<log_stream, log_content_changed, connVars, sockets, caller, req,
                   ringHist, snapVars, calls>>

\* one append_to_log_buffer(payload) call of process_docker_frames, under the mutex
WorkerAppend ==
  \E t \in ThreadIds :
    /\ threads[t].pc = "append"
    /\ LET d == Head(threads[t].pending)
       IN /\ log_stream' = [log_stream EXCEPT !.buffer = append_to_log_buffer(@, d)]
          /\ log_content_changed' = changed_after_append(log_content_changed, d)
          /\ appended' = appended \o d
          /\ appendLog' = IF Len(d) = 0 THEN appendLog ELSE Append(appendLog, d)
    /\ threads' = [threads EXCEPT ![t].pending = Tail(@),
                                  ![t].pc = IF Tail(threads[t].pending) = <<>>
                                              THEN "loop" ELSE "append"]
    /\ UNCHANGED <<connVars, sockets, caller, req, snapVars, calls>>

\* a worker that leaves the running flag as it finds it
running_after_loop_kept(running) == running

\* the running flag after the loop: "log_stream.running = false"
running_after_loop(running) == FALSE

\* after the loop: "log_stream.running = false"
WorkerExit ==
  \E t \in ThreadIds :
    /\ threads[t].pc = "exit"
    /\ log_stream' = [log_stream EXCEPT !.running = running_after_loop(@)]
    /\ threads' = [threads EXCEPT ![t].pc = "return"]
    /\ UNCHANGED <<log_content_changed, connVars, sockets, caller, req, ringHist,
                   snapVars, calls>>

\* the deferred deletes run and the thread procedure returns
WorkerReturn ==
  \E t \in ThreadIds :
    /\ threads[t].pc = "return"
    /\ threads' = [threads EXCEPT ![t].pc = "done"]
    /\ UNCHANGED <<log_stream, log_content_changed, connVars, sockets, caller, req,
                   ringHist, snapVars, calls>>

Worker(fragmented) ==
  \/ WorkerSend \/ WorkerLoop \/ WorkerReceive(fragmented) \/ WorkerReceiveEnd
  \/ WorkerAppend \/ WorkerExit \/ WorkerReturn

----------------------------------------------------------------------------
(* One streaming session decoding the daemon's response *)

NextStream ==
  \/ CallStart(1, {[id |-> "c1", name |-> "web"]})
  \/ StartCheckRunning
  \/ StartConnect(StreamScenarios)
  \/ StartInitState
  \/ StartSpawn
  \/ Worker(TRUE)
  \/ DaemonClose

SpecStream == Init /\ [][NextStream]_vars

\* the worker of the session has received every byte of the daemon's
\* response and has finished processing it
Consumed ==
  /\ log_stream.socket \in SocketIds
  /\ log_stream.thread \in ThreadIds
  /\ sockets[log_stream.socket].sc # NoScenario
  /\ sockets[log_stream.socket].rx = <<>>
  /\ threads[log_stream.thread].pc \in {"loop", "recv", "exit", "return", "done"}

TheScenario == sockets[log_stream.socket].sc

\* the content of the Ring Log Buffer
Content == get_log_content(log_stream.buffer)

\* the content the frames of a scenario should leave in the buffer
Expected(sc) == LastN(Flatten(PayloadsOf(sc)), LOG_BUFFER_MAX_SIZE)

\* the buffer left by a worker that receives all of bytes in one receive call
OneReceive(bytes) ==
  append_all(EmptyLogBuffer, worker_iteration(UnbornThread, bytes).pending)

\* C3: on a raw (non-chunked) body, a frame cut by a receive boundary is
\* retained and completed by the later receive, so that once every byte has
\* arrived the buffer holds what it would hold had each frame arrived whole.
C3_RawPartialFrameCompleted ==
  (Consumed /\ ~TheScenario.chunked) => Content = Expected(TheScenario)

\* C4: every append made to the Ring Log Buffer is exactly the complete
\* payload of one of the daemon's frames, however the stream is split into
\* receive calls.
C4_EveryAppendIsAFramePayload ==
  log_stream.socket \in SocketIds =>
    \A i \in 1..Len(appendLog) :
      \E j \in 1..Len(PayloadsOf(TheScenario)) : appendLog[i] = PayloadsOf(TheScenario)[j]

\* the bytes of the response the worker has received so far
Received ==
  Slice(TheScenario.bytes, 0,
        Len(TheScenario.bytes) - Len(sockets[log_stream.socket].rx))

\* the length of the header block the daemon sent
HeaderLen(sc) == Cardinality({i \in 1..Len(sc.tags) : sc.tags[i] = "H"})

\* what decoding makes of the bytes received so far once the daemon's header
\* block is taken off
BodyDecoded(sc, received) ==
  IF sc.chunked
    THEN process_chunked_log_data(Slice(received, HeaderLen(sc), Len(received)))
    ELSE process_raw_log_data(Slice(received, HeaderLen(sc), Len(received)))

\* C31: until the whole header block has arrived the worker only accumulates
\* (nothing is decoded or appended), wherever the receive boundaries fall,
\* inside "\r\n\r\n" included; in the receive that completes the header block
\* exactly the bytes after it are decoded, so no header byte reaches decoding
\* or the buffer and the boundaries inside the header block make no difference.
C31_HeadersStrippedBeforeDecoding ==
  /\ []((log_stream.thread \in ThreadIds /\ log_stream.socket \in SocketIds
          /\ ~threads[log_stream.thread].header_skipped)
         => /\ threads[log_stream.thread].partial_data = Received
            /\ threads[log_stream.thread].pc \in {"loop", "recv"}
                  => Len(Received) < HeaderLen(TheScenario)
            /\ threads[log_stream.thread].pending = <<>>
            /\ appendLog = <<>>
            /\ Content = <<>>)
  /\ [][(log_stream.thread \in ThreadIds /\ log_stream.socket \in SocketIds
          /\ ~threads[log_stream.thread].header_skipped
          /\ threads'[log_stream.thread].header_skipped)
         => /\ Len(Received') >= HeaderLen(TheScenario)
            /\ threads'[log_stream.thread].is_chunked = TheScenario.chunked
            /\ threads'[log_stream.thread].partial_data
                  = BodyDecoded(TheScenario, Received').data
            /\ threads'[log_stream.thread].pending
                  = BodyDecoded(TheScenario, Received').payloads]_vars

\* a chunked response whose header block arrived in pieces, one receive
\* ending inside its "\r\n\r\n", has been received whole and decoded
C31_Witness ==
  /\ Consumed
  /\ TheScenario.chunked
  /\ "terminator" \in sockets[log_stream.socket].cuts
  /\ threads[log_stream.thread].header_skipped
  /\ Content = Expected(TheScenario)
  /\ Content # <<>>

\* C5: for a chunked body whose chunks carry whole frames, however the bytes
\* are split into receive calls, the buffer content once every byte has
\* arrived equals the content obtained when all bytes arrive in one receive.
C5_ChunkDecodingIgnoresFragmentation ==
  (Consumed /\ TheScenario.chunked)
     => Content = get_log_content(OneReceive(TheScenario.bytes))

\* a chunked response was split inside a hex size line, between its CR and
\* LF, inside a chunk payload and before a trailing CRLF, and decoded
C5_Witness ==
  /\ Consumed
  /\ TheScenario.chunked
  /\ {"size", "crlf", "payload", "frameheader", "trailer"} \subseteq sockets[log_stream.socket].cuts
  /\ Content = <<97, 98, 99>>

\* C6: for a chunked response whose chunks carry whole frames and which ends
\* with the zero-size chunk, the buffer content after the worker consumed the
\* bytes is exactly the concatenation of the frame payloads in order.
C6_ChunkedEndToEnd ==
  (Consumed /\ TheScenario.chunked /\ TheScenario.terminal)
     => Content = Flatten(PayloadsOf(TheScenario))

\* the response with one chunk carrying {0,0,0,0,0,0,0,5} "hello", then
\* "0\r\n\r\n", was consumed and the buffer holds "hello"
C6_Witness ==
  /\ Consumed
  /\ TheScenario = ChunkedScenario(<< <<Frame(0, Hello)>> >>, TRUE)
  /\ threads[log_stream.thread].pc = "done"
  /\ Content = Hello

----------------------------------------------------------------------------
(* Connection Manager and Request Executor: get_connection, reset_connection,
   send_data, receive_data, send_http_request *)

\* most send_http_request calls, and most bytes of one response
MaxRequests == 2

\* the responses the daemon answers a request with: nothing, "[]" and "{}\n"
Responses == {<<>>, <<91, 93>>, <<123, 125, 10>>}

Plans ==
  [connect : [1..2 -> BOOLEAN], send : [1..2 -> BOOLEAN], resp : [1..2 -> Responses]]

\* the plan's entry for an attempt (attempts count from 0)
PlanAt(entries, attempt) == entries[IF attempt + 1 <= Len(entries) THEN attempt + 1 ELSE Len(entries)]

\* a reset_connection that forgets the socket without closing it
reset_connection_sockets_leaking == sockets

\* reset_connection: the socket table after it
reset_connection_sockets ==
  IF connection_established THEN close_socket(sockets, global_connection) ELSE sockets

\* a reset_connection that closes the socket and keeps the flag and the handle
reset_connection_state_stale ==
  [connection_established |-> connection_established,
   global_connection |-> global_connection]

\* reset_connection: the flag and the handle after it
reset_connection_state ==
  IF connection_established
    THEN [connection_established |-> FALSE, global_connection |-> NoSocket]
    ELSE [connection_established |-> connection_established,
          global_connection |-> global_connection]

\* most reset_connection calls made with no connection established
MaxResetNoops == 1

\* a retry policy that gives up after the first failure
may_retry_never(attempt) == attempt < 0

\* a retry policy that allows a third attempt
may_retry_twice(attempt) == attempt <= 1

\* the retry policy of send_http_request: "if attempt == 0 { reset_connection(); continue }"
may_retry(attempt) == attempt = 0

\* a get_connection that connects whether or not a connection is established
must_connect_always(established) == TRUE

\* get_connection: "if connection_established { return global_connection, true }"
must_connect(established) == ~established

\* the caller calls get_connection() / ensure_connection()
CallGetConnection ==
  /\ caller.pc = "idle"
  /\ Cardinality(FreeSockets) > 2
  /\ \E connect_ok \in BOOLEAN :
       IF must_connect(connection_established) /\ connect_ok
         THEN /\ sockets' = Connected(MinOf(FreeSockets), "request", NoScenario)
              /\ global_connection' = MinOf(FreeSockets)
              /\ connection_established' = TRUE
         ELSE UNCHANGED <<sockets, connVars>>
  /\ UNCHANGED <<log_stream, log_content_changed, threads, caller, req, ringHist,
                 snapVars, calls>>

\* the caller calls reset_connection()
CallResetConnection ==
  /\ caller.pc = "idle"
  /\ connection_established \/ calls.reset_noops < MaxResetNoops
  /\ sockets' = reset_connection_sockets
  /\ connection_established' = reset_connection_state.connection_established
  /\ global_connection' = reset_connection_state.global_connection
  /\ calls' = [calls EXCEPT !.reset_noops = IF connection_established THEN @ ELSE @ + 1]
  /\ UNCHANGED <<log_stream, log_content_changed, threads, caller, req, ringHist,
                 snapVars>>

\* the caller calls send_http_request(request); the sockets will behave as
\* one of the plans says
CallSendRequestOf(plans, max) ==
  \E plan \in plans :
    /\ caller.pc = "idle"
    /\ calls.request < max
    /\ Cardinality(FreeSockets) >= 2
    /\ caller' = [IdleCaller EXCEPT !.pc = "req_111"]
    /\ req' = [IdleReq EXCEPT !.plan = plan, !.reused = connection_established]
    /\ calls' = [calls EXCEPT !.request = @ + 1]
    /\ UNCHANGED <<log_stream, log_content_changed, connVars, sockets, threads,
                   ringHist, snapVars>>

CallSendRequest == CallSendRequestOf(Plans, MaxRequests)

\* the caller's state when an attempt has failed: retry, or return "", false
AttemptFailed ==
  /\ caller' = [caller EXCEPT !.pc = IF may_retry(req.attempt) THEN "req_111" ELSE "idle",
                              !.result = IF may_retry(req.attempt) THEN @ ELSE "request_done"]
  /\ req' = [req EXCEPT !.attempt = IF may_retry(req.attempt) THEN @ + 1 ELSE @,
                        !.fails = @ + 1,
                        !.response = <<>>,
                        !.ok = FALSE]

\* send_http_request: "sock, connect_ok := ensure_connection()"
ReqConnect ==
  /\ caller.pc = "req_111"
  /\ IF ~must_connect(connection_established)
       THEN /\ req' = [req EXCEPT !.sock = global_connection]
            /\ caller' = [caller EXCEPT !.pc = "req_124"]
            /\ UNCHANGED <<sockets, connVars>>
       ELSE IF PlanAt(req.plan.connect, req.attempt) /\ FreeSockets # {}
         THEN /\ sockets' = Connected(MinOf(FreeSockets), "request", NoScenario)
              /\ global_connection' = MinOf(FreeSockets)
              /\ connection_established' = TRUE
              /\ req' = [req EXCEPT !.sock = MinOf(FreeSockets), !.opens = @ + 1]
              /\ caller' = [caller EXCEPT !.pc = "req_124"]
         ELSE \* the failure path calls reset_connection(), which finds nothing established
              /\ AttemptFailed
              /\ UNCHANGED <<sockets, connVars>>
  /\ UNCHANGED <<log_stream, log_content_changed, threads, ringHist, snapVars, calls>>

\* send_http_request: "_, send_ok := send_data(sock, request_bytes)"; send_data
\* resets the connection itself when the write fails or is short
ReqSend ==
  /\ caller.pc = "req_124"
  /\ IF PlanAt(req.plan.send, req.attempt) /\ sockets[req.sock].state = "open"
       THEN /\ sockets' = [sockets EXCEPT ![req.sock].rx = PlanAt(req.plan.resp, req.attempt)]
            /\ req' = [req EXCEPT !.sends = @ + 1, !.response_builder = <<>>,
                                  !.total_read = 0]
            /\ caller' = [caller EXCEPT !.pc = "req_142"]
            /\ UNCHANGED connVars
       ELSE /\ sockets' = reset_connection_sockets
            /\ connection_established' = FALSE
            /\ global_connection' = NoSocket
            /\ caller' = [caller EXCEPT
                            !.pc = IF may_retry(req.attempt) THEN "req_111" ELSE "idle",
                            !.result = IF may_retry(req.attempt) THEN @ ELSE "request_done"]
            /\ req' = [req EXCEPT !.attempt = IF may_retry(req.attempt) THEN @ + 1 ELSE @,
                                  !.sends = @ + 1, !.fails = @ + 1,
                                  !.response = <<>>, !.ok = FALSE]
  /\ UNCHANGED <<log_stream, log_content_changed, threads, ringHist, snapVars, calls>>

\* the receive loop: receive_data returns n bytes, which are accumulated
ReqReceive ==
  /\ caller.pc = "req_142"
  /\ sockets[req.sock].state = "open"
  /\ \E n \in 1..Len(sockets[req.sock].rx) :
       /\ req' = [req EXCEPT
                    !.total_read = @ + n,
                    !.response_builder = @ \o SubSeq(sockets[req.sock].rx, 1, n),
                    !.recvs = @ + 1]
       /\ sockets' = [sockets EXCEPT ![req.sock].rx = SubSeq(@, n + 1, Len(@))]
  /\ UNCHANGED <<log_stream, log_content_changed, connVars, threads, caller, ringHist,
                 snapVars, calls>>

\* the receive loop ends: receive_data reads nothing more (the daemon closed
\* the connection, or the timeout passed), resets the connection and the loop breaks
ReqReceiveEnd ==
  /\ caller.pc = "req_142"
  /\ sockets[req.sock].state # "open" \/ sockets[req.sock].rx = <<>>
  /\ sockets' = reset_connection_sockets
  /\ connection_established' = FALSE
  /\ global_connection' = NoSocket
  /\ caller' = [caller EXCEPT !.pc = "req_150"]
  /\ UNCHANGED <<log_stream, log_content_changed, threads, req, ringHist, snapVars, calls>>

\* send_http_request: "if total_read == 0 { ... }", else return the response
ReqFinish ==
  /\ caller.pc = "req_150"
  /\ IF req.total_read = 0
       THEN AttemptFailed
       ELSE /\ req' = [req EXCEPT !.response = req.response_builder, !.ok = TRUE]
            /\ caller' = [caller EXCEPT !.pc = "idle", !.result = "request_done"]
  /\ UNCHANGED <<log_stream, log_content_changed, connVars, sockets, threads, ringHist,
                 snapVars, calls>>

NextExec ==
  \/ CallGetConnection
  \/ CallResetConnection
  \/ CallSendRequest
  \/ ReqConnect
  \/ ReqSend
  \/ ReqReceive
  \/ ReqReceiveEnd
  \/ ReqFinish

SpecExec == Init /\ [][NextExec]_vars

\* send_http_request has returned
Returned == caller.pc = "idle" /\ caller.result = "request_done"

\* the first attempt reaches its send (on the connection already established,
\* or on one it opens) and the send fails; the second attempt opens a fresh
\* connection, sends and is answered with a non-empty response
SendFailsThenSucceeds ==
  /\ req.plan # NoPlan
  /\ req.reused \/ req.plan.connect[1]
  /\ ~req.plan.send[1]
  /\ req.plan.connect[2]
  /\ req.plan.send[2]
  /\ req.plan.resp[2] # <<>>

\* C7: a request whose send fails on the first attempt and whose second
\* attempt, on a freshly opened connection, sends and receives a non-empty
\* response returns ok = true with exactly the bytes of the second attempt.
C7_RetryAfterSendFailure ==
  (Returned /\ SendFailsThenSucceeds)
     => /\ req.ok
        /\ req.response = req.plan.resp[2]
        /\ req.opens >= 1

\* such a call has returned, the first send having failed on a connection
\* established earlier, the response received in more than one receive
C7_Witness ==
  /\ Returned
  /\ SendFailsThenSucceeds
  /\ req.reused
  /\ req.recvs >= 2
  /\ req.ok
  /\ req.response = <<123, 125, 10>>

\* C8: one call makes at most 2 attempts whatever fails: a failed first
\* attempt leaves the connection reset and goes to the second; a failed second
\* attempt returns ok = false with an empty response. A call opens at most 2
\* connections and sends at most 2 times.
C8_BoundedRetry ==
  /\ req.attempt \in {0, 1}
  /\ req.fails <= 2
  /\ req.opens <= 2
  /\ req.sends <= 2
  /\ (caller.pc = "req_111" /\ req.attempt = 1)
       => /\ req.fails = 1
          /\ ~connection_established
          /\ \A s \in SocketIds : sockets[s].kind = "request" => sockets[s].state # "open"
  /\ Returned => /\ req.ok <=> req.fails < 2
                 /\ ~req.ok => req.response = <<>>

\* a call has failed twice: a first attempt that read no bytes and a second
\* whose send failed, each on a connection of its own
C8_Witness ==
  /\ Returned
  /\ ~req.ok
  /\ req.fails = 2
  /\ req.opens = 2
  /\ req.sends = 2
  /\ req.response = <<>>

----------------------------------------------------------------------------
(* Log stream sessions: the caller starts and stops sessions while the
   worker threads run *)

\* most start_log_stream and stop_log_stream calls of one run
MaxStarts == 2
MaxStops == 3

\* the daemon answers a short raw response
SessionScenarios == {RawScenario(<<Frame(1, <<97>>)>>)}

Session ==
  \/ CallStart(MaxStarts, Containers)
  \/ StartCheckRunning
  \/ StartConnect(SessionScenarios)
  \/ StartInitState
  \/ StartSpawn
  \/ CallStop(MaxStops)
  \/ StopCheckRunning
  \/ StopClearRunning
  \/ StopCloseSocket
  \/ StopJoin
  \/ StopCleanStrings

NextSession == Session \/ Worker(FALSE) \/ DaemonClose

SpecSession == Init /\ [][NextSession]_vars

\* the worker threads whose thread procedure is running
AliveThreads == {t \in ThreadIds : threads[t].pc \notin {"unborn", "done"}}

\* is_log_stream_active
is_log_stream_active == log_stream.running

\* C9: when start_log_stream is called while a session is streaming, the old
\* worker has terminated and been joined and the old socket has been closed
\* before the new socket is opened and the new worker spawned; two workers
\* are never alive together.
C9_RestartTearsDownFirst ==
  /\ (caller.restart /\ caller.pc \in {"start_76", "start_83"})
       => /\ sockets[caller.oldSock].state = "closed"
          /\ threads[caller.oldThread].pc = "done"
  /\ Cardinality(AliveThreads) <= 1

\* C10: stop_log_stream on a session that is not running (stopped before,
\* ended by itself or never started) returns at once: it changes no session
\* state, closes no socket and leaves is_log_stream_active false.
C10_StopIsIdempotent ==
  [][(caller.pc = "stop_97" /\ ~log_stream.running /\ caller' # caller)
       => /\ caller'.pc = caller.ret
          /\ log_stream' = log_stream
          /\ sockets' = sockets
          /\ threads' = threads
          /\ log_content_changed' = log_content_changed
          /\ ~is_log_stream_active']_vars

\* a session was started and stopped, its socket closed once, and two more
\* stop calls in a row have returned
C10_Witness ==
  /\ caller.pc = "idle"
  /\ caller.result = "stop_noop"
  /\ calls.noops = 2
  /\ calls.start = 1
  /\ ~is_log_stream_active
  /\ log_stream.socket \in SocketIds
  /\ sockets[log_stream.socket].closes = 1

\* get_log_container_name
get_log_container_name == log_stream.container_name

\* a stop_log_stream call made by the caller has returned
StopReturned == caller.pc = "idle" /\ caller.result \in {"stop_noop", "stopped"}

\* C11: after any stop_log_stream call returns, however the session (started
\* by a start_log_stream call that returned true) ended before it, running is
\* false, the session's socket is closed, the worker thread is joined and the
\* id and name strings are released.
C11_StopTearsDownFully ==
  (StopReturned /\ calls.started = calls.start)
    => /\ ~is_log_stream_active
       /\ log_stream.socket \in SocketIds => sockets[log_stream.socket].state = "closed"
       /\ log_stream.thread = NoThread
       /\ log_stream.container_id = ""
       /\ get_log_container_name = ""

\* a start_log_stream call has returned false
StartFailed == caller.pc = "idle" /\ caller.result = "start_failed"

\* C12: after start_log_stream returns false (no socket, or no thread),
\* running is false, no streaming socket is open, no worker exists and the
\* id and name strings of the attempted session are not retained.
C12_FailedStartLeavesNothing ==
  StartFailed
    => /\ ~is_log_stream_active
       /\ \A s \in SocketIds : sockets[s].kind = "stream" => sockets[s].state # "open"
       /\ log_stream.thread = NoThread
       /\ log_stream.container_id = ""
       /\ get_log_container_name = ""

----------------------------------------------------------------------------
(* One streaming session whose worker thread is scheduled fairly: the thread
   takes each step of its own; a receive waits as long as the daemon likes *)

SpecStreamLive ==
  /\ SpecStream
  /\ WF_vars(WorkerSend) /\ WF_vars(WorkerLoop) /\ WF_vars(WorkerReceiveEnd)
  /\ WF_vars(WorkerAppend) /\ WF_vars(WorkerExit) /\ WF_vars(WorkerReturn)

\* the worker has left its loop
LeftLoop(t) == threads[t].pc \in {"exit", "return", "done"}

\* C13: when a receive on the streaming socket returns zero bytes or fails,
\* the worker leaves its loop for good and appends nothing further, the
\* caller is told nothing, and running eventually becomes false without a
\* stop_log_stream call.
C13_DaemonCloseEndsSession ==
  /\ [][\A t \in ThreadIds :
          /\ (threads[t].pc = "recv" /\ threads'[t].pc = "exit")
               => /\ caller' = caller
                  /\ appended' = appended
          /\ LeftLoop(t)
               => /\ LeftLoop(t)'
                  /\ appended' = appended
                  /\ log_stream'.buffer = log_stream.buffer]_vars
  /\ (\E t \in ThreadIds : threads[t].pc = "exit") ~> ~is_log_stream_active

\* the daemon closed the stream after the whole response, the worker has
\* appended it and returned, running is false and stop was never called
C13_Witness ==
  /\ \E t \in ThreadIds : threads[t].pc = "done"
  /\ log_stream.socket \in SocketIds
  /\ sockets[log_stream.socket].eof
  /\ sockets[log_stream.socket].rx = <<>>
  /\ sockets[log_stream.socket].state = "open"
  /\ appended # <<>>
  /\ ~is_log_stream_active
  /\ calls.stop = 0
  /\ caller.result = "started"

----------------------------------------------------------------------------
(* Response Parser: extract_json_from_response and its steps *)

\* strings.index(s, pat): the offset of the first occurrence, or -1
strings_index(s, pat) ==
  LET hits == {i \in 0..(Len(s) - Len(pat)) : \A j \in 1..Len(pat) : s[i + j] = pat[j]}
  IN IF hits = {} THEN -1 ELSE MinOf(hits)

\* find_body_start
find_body_start(response) ==
  IF strings_index(response, <<CR, LF, CR, LF>>) # -1
    THEN strings_index(response, <<CR, LF, CR, LF>>) + 4
  ELSE IF strings_index(response, <<LF, LF>>) # -1
    THEN strings_index(response, <<LF, LF>>) + 2
  ELSE -1

\* is_hex_number
is_hex_number(s) ==
  \A i \in 1..Len(s) :
    \/ s[i] >= 48 /\ s[i] <= 57
    \/ s[i] >= 97 /\ s[i] <= 102
    \/ s[i] >= 65 /\ s[i] <= 70

\* skip_chunked_encoding_header
skip_chunked_encoding_header(body) ==
  LET chunk_end == strings_index(body, <<CR, LF>>)
  IN IF chunk_end = -1 THEN body
     ELSE IF is_hex_number(Slice(body, 0, chunk_end)) /\ chunk_end > 0
       THEN Slice(body, chunk_end + 2, Len(body))
     ELSE body

\* find_json_start
find_json_start(body) ==
  LET opens == {i \in 0..(Len(body) - 1) : body[i + 1] = 91 \/ body[i + 1] = 123}
  IN IF opens = {} THEN body ELSE Slice(body, MinOf(opens), Len(body))

\* the loop of find_json_end from index i: the length of the result
RECURSIVE json_end_from(_, _, _, _, _)
json_end_from(json_body, i, bracket_count, in_string, escape_next) ==
  IF i >= Len(json_body) THEN Len(json_body)
  ELSE LET c == json_body[i + 1]
       IN IF escape_next
            THEN json_end_from(json_body, i + 1, bracket_count, in_string, FALSE)
          ELSE IF c = 92
            THEN json_end_from(json_body, i + 1, bracket_count, in_string, TRUE)
          ELSE IF c = 34
            THEN json_end_from(json_body, i + 1, bracket_count, ~in_string, FALSE)
          ELSE IF in_string
            THEN json_end_from(json_body, i + 1, bracket_count, in_string, FALSE)
          ELSE IF c = 91 \/ c = 123
            THEN json_end_from(json_body, i + 1, bracket_count + 1, in_string, FALSE)
          ELSE IF c = 93 \/ c = 125
            THEN IF bracket_count - 1 = 0 THEN i + 1
                 ELSE json_end_from(json_body, i + 1, bracket_count - 1, in_string, FALSE)
          ELSE json_end_from(json_body, i + 1, bracket_count, in_string, FALSE)

\* find_json_end cutting at the first closing bracket it meets
find_json_end_first_close(json_body) ==
  LET closes == {i \in 0..(Len(json_body) - 1) :
                   json_body[i + 1] = 93 \/ json_body[i + 1] = 125}
  IN IF closes = {} THEN json_body ELSE Slice(json_body, 0, MinOf(closes) + 1)

\* find_json_end
find_json_end(json_body) ==
  Slice(json_body, 0, json_end_from(json_body, 0, 0, FALSE, FALSE))

\* extract_json_from_response
extract_json_from_response(response) ==
  LET json_start == find_body_start(response)
  IN IF json_start = -1
       THEN [json_body |-> <<>>, ok |-> FALSE]
       ELSE [json_body |->
               find_json_end(find_json_start(skip_chunked_encoding_header(
                 Slice(response, json_start, Len(response))))),
             ok |-> TRUE]

----------------------------------------------------------------------------
(* The responses the parser is given *)

\* deepest nesting of the JSON values
MaxJsonDepth == 2

\* JSON strings: "a", "[", "}", "]{", "\"", "\\" and "\"]"
JsonStrings ==
  { <<34, 97, 34>>, <<34, 91, 34>>, <<34, 125, 34>>, <<34, 93, 123, 34>>,
    <<34, 92, 34, 34>>, <<34, 92, 92, 34>>, <<34, 92, 34, 93, 34>> }

\* strings and the number 1
JsonScalars == JsonStrings \cup {<<49>>}

\* the well-formed JSON values nested at most d deep: [], {}, [v], {"a":v}, [v,"]{"]
RECURSIVE JsonValues(_)
JsonValues(d) ==
  IF d = 0 THEN JsonScalars
  ELSE LET inner == JsonValues(d - 1)
       IN inner
            \cup {<<91, 93>>, <<123, 125>>}
            \cup {<<91>> \o v \o <<93>> : v \in inner}
            \cup {<<123, 34, 97, 34, 58>> \o v \o <<125>> : v \in inner}
            \cup {<<91>> \o v \o <<44, 34, 93, 123, 34, 93>> : v \in inner}

\* the JSON objects and arrays
JsonDocs == {v \in JsonValues(MaxJsonDepth) : v[1] = 91 \/ v[1] = 123}

\* what follows the JSON value: nothing, "\n", "\r\n0\r\n\r\n", "]}", "\"]", "\\"
Trailers ==
  { <<>>, <<LF>>, CRLF \o <<48>> \o CRLF \o CRLF, <<93, 125>>, <<34, 93>>, <<92>> }

\* a response: the header block, a chunk-size line when chunked, the body, the trailer
ResponseBytes(chunked, body, trailer) ==
  HeaderBlock(chunked)
    \o (IF chunked THEN HexDigits(Len(body)) \o CRLF ELSE <<>>)
    \o body \o trailer

WellFormedInputs ==
  { [kind |-> "wellformed", J |-> j, chunked |-> ch, trailer |-> t,
     bytes |-> ResponseBytes(ch, j, t)] :
      j \in JsonDocs, ch \in BOOLEAN, t \in Trailers }

\* bodies without any '[' or '{': empty, "OK", "\"a\"", "1\n", "]"
NoBracketBodies == { <<>>, <<79, 75>>, <<34, 97, 34>>, <<49, LF>>, <<93>> }

\* bodies whose first bracket is never balanced: "[", "[1", "{\"a\":[1}",
\* "[\"]\"" and "[[1]"
UnbalancedBodies ==
  { <<91>>, <<91, 49>>, <<123, 34, 97, 34, 58, 91, 49, 125>>, <<91, 34, 93, 34>>,
    <<91, 91, 49, 93>> }

MalformedInputs ==
  { [kind |-> "nobracket", J |-> b, chunked |-> ch, trailer |-> <<>>,
     bytes |-> ResponseBytes(ch, b, <<>>)] : b \in NoBracketBodies, ch \in BOOLEAN }
  \cup
  { [kind |-> "unbalanced", J |-> b, chunked |-> ch, trailer |-> <<>>,
     bytes |-> ResponseBytes(ch, b, <<>>)] : b \in UnbalancedBodies, ch \in BOOLEAN }

\* a chunk-encoded body: each piece as "<hex size>\r\n<piece>\r\n", then "0\r\n\r\n"
RECURSIVE ChunkedBody(_)
ChunkedBody(pieces) ==
  IF pieces = <<>> THEN ZeroChunk
  ELSE HexDigits(Len(Head(pieces))) \o CRLF \o Head(pieces) \o CRLF
         \o ChunkedBody(Tail(pieces))

\* the ways a text is carried by one chunk, by two chunks (cut anywhere) and
\* by three chunks (cut after its first byte and before its last)
PiecesOf(j) ==
  { <<j>> }
    \cup { <<Slice(j, 0, k), Slice(j, k, Len(j))>> : k \in 1..(Len(j) - 1) }
    \cup { <<Slice(j, 0, 1), Slice(j, 1, Len(j) - 1), Slice(j, Len(j) - 1, Len(j))>> :
              k \in (IF Len(j) >= 3 THEN {1} ELSE {}) }

ChunkKind(pieces) ==
  IF Len(pieces) = 1 THEN "chunks1" ELSE IF Len(pieces) = 2 THEN "chunks2" ELSE "chunks3"

\* well-formed JSON documents nested at most once, chunk-encoded
ChunkedInputs ==
  { [kind |-> ChunkKind(x[2]), J |-> x[1], chunked |-> TRUE, trailer |-> <<>>,
     bytes |-> HeaderBlock(TRUE) \o ChunkedBody(x[2])] :
      x \in UNION { {<<j, ps>> : ps \in PiecesOf(j)} :
                      j \in {v \in JsonValues(1) : v[1] = 91 \/ v[1] = 123} } }

JsonInputs == WellFormedInputs \cup MalformedInputs \cup ChunkedInputs

\* the caller calls extract_json_from_response(response)
CallExtractJson ==
  \E in \in JsonInputs :
    /\ caller.pc = "idle"
    /\ json.calls = 0
    /\ json' = [input      |-> in,
                calls      |-> 1,
                json_body  |-> extract_json_from_response(in.bytes).json_body,
                ok         |-> extract_json_from_response(in.bytes).ok,
                again_body |-> <<>>,
                again_ok   |-> FALSE]
    /\ UNCHANGED <<log_stream, log_content_changed, connVars, sockets, threads, caller,
                   req, ringHist, snap, snapOf, poll, calls>>

\* the caller calls extract_json_from_response on the text the last call returned
CallExtractAgain ==
  /\ caller.pc = "idle"
  /\ json.calls = 1
  /\ json.ok
  /\ json' = [json EXCEPT
                !.calls      = 2,
                !.again_body = extract_json_from_response(json.json_body).json_body,
                !.again_ok   = extract_json_from_response(json.json_body).ok]
  /\ UNCHANGED <<log_stream, log_content_changed, connVars, sockets, threads, caller,
                 req, ringHist, snap, snapOf, poll, calls>>

NextParse == CallExtractJson \/ CallExtractAgain

SpecParse == Init /\ [][NextParse]_vars

\* C14: for a response made of a header block, an optional chunk-size line,
\* a well-formed JSON object or array J and any trailing bytes,
\* extract_json_from_response returns ok = true and exactly J.
C14_ExtractReturnsTheJson ==
  (json.calls >= 1 /\ json.input.kind = "wellformed")
    => /\ json.ok
       /\ json.json_body = json.input.J

\* the value [{"a":"\"]"}] after a chunk-size line and before "\r\n0\r\n\r\n"
C14_Witness ==
  /\ json.calls = 1
  /\ json.input.kind = "wellformed"
  /\ json.input.J = <<91, 123, 34, 97, 34, 58, 34, 92, 34, 93, 34, 125, 93>>
  /\ json.input.chunked
  /\ json.input.trailer = CRLF \o <<48>> \o CRLF \o CRLF
  /\ json.json_body = json.input.J

\* C24: for a one-shot response whose chunk-encoded body carries a
\* well-formed JSON array or object J in one, two or more chunks, the text
\* extracted is exactly J, with no chunk-size line and no chunk CRLF in it.
C24_ChunkedBodyUnwrapped ==
  (json.calls >= 1 /\ json.input.kind \in {"chunks1", "chunks2", "chunks3"})
    => /\ json.ok
       /\ json.json_body = json.input.J

\* C15: when extract_json_from_response succeeds with a well-formed JSON
\* value J, running it again on J succeeds and returns J unchanged.
C15_ExtractIdempotent ==
  (json.calls = 2 /\ json.input.kind = "wellformed")
    => /\ json.again_ok
       /\ json.again_body = json.json_body

\* C16: for a body without any '{' or '[', and for a body whose first opening
\* bracket is never balanced outside strings, extract_json_from_response
\* returns ok = false.
C16_UnbalancedFails ==
  (json.calls >= 1 /\ json.input.kind \in {"nobracket", "unbalanced"})
    => ~json.ok

----------------------------------------------------------------------------
(* Streaming sessions whose response spells the Transfer-Encoding header in
   several letter cases *)

ToLower(c) == IF c >= 65 /\ c <= 90 THEN c + 32 ELSE c
ToUpper(c) == IF c >= 97 /\ c <= 122 THEN c - 32 ELSE c

LowerCase(s) == [i \in 1..Len(s) |-> ToLower(s[i])]
UpperCase(s) == [i \in 1..Len(s) |-> ToUpper(s[i])]

\* "Transfer-Encoding: chunked", "transfer-encoding: chunked",
\* "TRANSFER-ENCODING: CHUNKED" and "Transfer-encoding: Chunked"
TransferEncodingLines ==
  { TransferEncodingChunked,
    TransferEncodingChunkedLower,
    UpperCase(TransferEncodingChunked),
    [TransferEncodingChunked EXCEPT ![10] = 101, ![20] = 67] }

\* a header block with one header line
HeaderWith(line) == StatusLine \o CRLF \o line \o CRLF \o CRLF

\* the chunked response carrying "hello" under a header block with the given line
SpelledScenario(line) ==
  LET sc == ChunkedScenario(<< <<Frame(1, Hello)>> >>, TRUE)
  IN [sc EXCEPT
        !.bytes = HeaderWith(line) \o Slice(sc.bytes, Len(HeaderBlock(TRUE)), Len(sc.bytes)),
        !.tags  = Tagged(HeaderWith(line), "H")
                    \o Slice(sc.tags, Len(HeaderBlock(TRUE)), Len(sc.tags))]

DetectScenarios ==
  {SpelledScenario(line) : line \in TransferEncodingLines}
    \cup {RawScenario(<<Frame(1, Hello)>>)}

NextDetect ==
  \/ CallStart(1, {[id |-> "c1", name |-> "web"]})
  \/ StartCheckRunning
  \/ StartConnect(DetectScenarios)
  \/ StartInitState
  \/ StartSpawn
  \/ Worker(TRUE)
  \/ DaemonClose

SpecDetect == Init /\ [][NextDetect]_vars

\* some letter-case variant of "transfer-encoding: chunked" occurs in the text
has_chunked_header_any_case(header_str) ==
  Contains(LowerCase(header_str), TransferEncodingChunkedLower)

\* the header block of a response
HeaderOf(bytes) == Slice(bytes, 0, find_header_end(bytes))

\* C17: the worker treats the response as chunked for every letter-case
\* variant of the Transfer-Encoding: chunked header line, and as raw only
\* when no variant occurs in the header block.
C17_ChunkedDetectionAnyCase ==
  \A t \in ThreadIds :
    (threads[t].header_skipped /\ log_stream.socket \in SocketIds)
      => (threads[t].is_chunked
            <=> has_chunked_header_any_case(HeaderOf(TheScenario.bytes)))

----------------------------------------------------------------------------
(* Connection Manager: the request/response socket across calls *)

\* the request/response sockets whose handle is open
OpenRequestSockets ==
  {s \in SocketIds : sockets[s].kind = "request" /\ sockets[s].state = "open"}

\* C18: a send_http_request call that returns ok = true leaves the
\* request/response socket open and the connection marked established (so
\* that the next call sends on the same socket); a call made on an
\* established connection that meets no failure opens no socket.
C18_ConnectionReused ==
  /\ (Returned /\ req.ok)
       => /\ connection_established
          /\ global_connection = req.sock
          /\ sockets[req.sock].state = "open"
  /\ (Returned /\ req.ok /\ req.reused /\ req.fails = 0) => req.opens = 0

\* C19: at most one request/response socket is open; one is open exactly
\* when connection_established holds, and it is global_connection; a
\* reset_connection call with no connection established changes nothing.
C19_OneRequestSocket ==
  /\ [](/\ Cardinality(OpenRequestSockets) <= 1
        /\ connection_established <=> OpenRequestSockets # {}
        /\ connection_established => OpenRequestSockets = {global_connection})
  /\ [][(calls'.reset_noops # calls.reset_noops)
          => /\ ~connection_established
             /\ sockets' = sockets
             /\ connection_established' = connection_established
             /\ global_connection' = global_connection]_vars

\* reset_connection has been called with nothing established, and later a
\* request whose first attempt failed holds its second connection while the
\* first one is closed
C19_Witness ==
  /\ calls.reset_noops = 1
  /\ caller.pc = "req_124"
  /\ req.attempt = 1
  /\ req.opens = 2
  /\ connection_established
  /\ OpenRequestSockets = {global_connection}
  /\ \E s \in SocketIds : sockets[s].kind = "request" /\ sockets[s].state = "closed"

\* a send on the request socket has failed or was short in this step
SendFailedStep == caller.pc = "req_124" /\ req'.fails > req.fails

\* a receive on the request socket has failed or returned zero bytes in this step
ReceiveFailedStep == caller.pc = "req_142" /\ caller'.pc = "req_150"

\* the second attempt has obtained its socket in this step
SecondAttemptConnectedStep ==
  caller.pc = "req_111" /\ req.attempt = 1 /\ caller'.pc = "req_124"

\* C29: a failed or short send and a failed or empty receive on the
\* request socket leave that socket closed and the established flag cleared
\* in the same step, the executor sends and receives only on the open socket
\* of the established connection, never on one closed before, and a second
\* attempt runs on a socket opened for it.
C29_ResetPrecedesRetry ==
  /\ [](caller.pc \in {"req_124", "req_142"}
          => /\ connection_established
             /\ req.sock = global_connection
             /\ sockets[req.sock].state = "open"
             /\ sockets[req.sock].closes = 0)
  /\ [][/\ (SendFailedStep \/ ReceiveFailedStep)
             => /\ sockets'[req.sock].state = "closed"
                /\ ~connection_established'
                /\ global_connection' = NoSocket
        /\ SecondAttemptConnectedStep
             => /\ sockets[req'.sock].state = "unused"
                /\ sockets'[req'.sock].state = "open"
                /\ req'.sock # req.sock
                /\ req'.opens = req.opens + 1]_vars

\* the first attempt's send failed on a connection established earlier, which
\* was closed, and the second attempt holds a socket of its own
C29_Witness ==
  /\ caller.pc = "req_124"
  /\ req.attempt = 1
  /\ req.reused
  /\ req.fails = 1
  /\ req.sends = 1
  /\ req.opens = 1
  /\ sockets[req.sock].state = "open"
  /\ \E s \in SocketIds \ {req.sock} :
       sockets[s].kind = "request" /\ sockets[s].state = "closed"

----------------------------------------------------------------------------
(* The dirty flag: the worker's appends against the caller's
   has_log_content_changed calls *)

\* most has_log_content_changed calls of one run
MaxPolls == 3

\* history: the non-empty appends completed so far
NonEmptyAppends == Cardinality({i \in 1..Len(appendLog) : appendLog[i] # <<>>})

\* the caller calls has_log_content_changed()
CallHasChanged ==
  /\ caller.pc = "idle"
  /\ poll.calls < MaxPolls
  /\ caller' = [IdleCaller EXCEPT !.pc = "poll_46"]
  /\ UNCHANGED <<log_stream, log_content_changed, connVars, sockets, threads, req,
                 ringHist, snapVars, calls>>

\* the call returns: its result, and the appends completed when it took effect
poll_returns(ret) ==
  [calls     |-> IF poll.calls < MaxPolls THEN poll.calls + 1 ELSE poll.calls,
   ret       |-> ret,
   prev_ret  |-> poll.ret,
   seen      |-> NonEmptyAppends,
   prev_seen |-> poll.seen]

\* has_log_content_changed: "if log_content_changed {", else "return false"
HasChangedRead ==
  /\ caller.pc = "poll_46"
  /\ IF log_content_changed
       THEN /\ caller' = [caller EXCEPT !.pc = "poll_47"]
            /\ poll' = poll
       ELSE /\ caller' = [caller EXCEPT !.pc = "idle", !.result = "polled"]
            /\ poll' = poll_returns(FALSE)
  /\ UNCHANGED <<log_stream, log_content_changed, connVars, sockets, threads, req,
                 ringHist, snap, snapOf, json, calls>>

\* a has_log_content_changed that leaves the flag as it is
flag_after_poll_kept(flag) == flag

\* has_log_content_changed: "log_content_changed = false"
flag_after_poll(flag) == FALSE

\* has_log_content_changed: "log_content_changed = false; return true"
HasChangedClear ==
  /\ caller.pc = "poll_47"
  /\ log_content_changed' = flag_after_poll(log_content_changed)
  /\ caller' = [caller EXCEPT !.pc = "idle", !.result = "polled"]
  /\ poll' = poll_returns(TRUE)
  /\ UNCHANGED <<log_stream, connVars, sockets, threads, req, ringHist, snap, snapOf,
                 json, calls>>

NextPoll == RingAppend \/ CallHasChanged \/ HasChangedRead \/ HasChangedClear

SpecPoll == Init /\ [][NextPoll]_vars

\* C20: has_log_content_changed returns true exactly when a non-empty append
\* completed since the previous call took effect, and it clears the flag: the
\* flag is set exactly when a non-empty append has completed that no call has
\* reported, whatever the interleaving of appends and calls.
C20_HasChangedIsReadAndClear ==
  /\ (poll.calls >= 1 /\ caller.pc = "idle") => (poll.ret <=> poll.seen > poll.prev_seen)
  /\ log_content_changed <=> NonEmptyAppends > poll.seen

\* two calls in a row with no append between them have returned true, false
C20_Witness ==
  /\ caller.pc = "idle"
  /\ poll.calls >= 2
  /\ poll.prev_ret
  /\ ~poll.ret
  /\ poll.seen = poll.prev_seen
  /\ poll.seen >= 1
  /\ ~log_content_changed

----------------------------------------------------------------------------
(* The consumer: the main loop polls has_log_content_changed and renders,
   taking a snapshot, each time it returns true *)

\* has_log_content_changed has returned true and the frame is not rendered yet
RenderPending == caller.pc = "idle" /\ caller.result = "polled" /\ poll.ret

\* main: "if docker.has_log_content_changed() { gui.mark_dirty() }"
ConsumerPoll ==
  /\ caller.pc = "idle"
  /\ ~RenderPending
  /\ caller' = [IdleCaller EXCEPT !.pc = "poll_46"]
  /\ UNCHANGED <<log_stream, log_content_changed, connVars, sockets, threads, req,
                 ringHist, snapVars, calls>>

\* main: "if gui.is_dirty() { gui.render(containers) ... }": the log view
\* calls get_log_content
ConsumerRender ==
  /\ RenderPending
  /\ snap' = get_log_content(log_stream.buffer)
  /\ snapOf' = appended
  /\ caller' = [caller EXCEPT !.result = "rendered"]
  /\ UNCHANGED <<log_stream, log_content_changed, connVars, sockets, threads, req,
                 ringHist, json, poll, calls>>

NextView ==
  \/ RingAppend
  \/ ConsumerPoll
  \/ HasChangedRead
  \/ HasChangedClear
  \/ ConsumerRender

SpecView == Init /\ [][NextView]_vars

\* the main loop keeps running
SpecViewLive ==
  /\ SpecView
  /\ WF_vars(ConsumerPoll) /\ WF_vars(HasChangedRead) /\ WF_vars(HasChangedClear)
  /\ WF_vars(ConsumerRender)

\* C21: for a consumer that keeps polling and takes a snapshot each time
\* has_log_content_changed returns true, once the worker appends no more the
\* latest snapshot eventually equals the buffer content, and stays equal.
C21_EventuallyConsistentView ==
  <>[](snap = Content)

\* the consumer has rendered twice, the second time after further appends,
\* and its snapshot is the content of a buffer that has wrapped
C21_Witness ==
  /\ caller.result = "rendered"
  /\ poll.prev_ret /\ poll.ret
  /\ poll.prev_seen >= 1
  /\ poll.seen > poll.prev_seen
  /\ Len(appended) > LOG_BUFFER_MAX_SIZE
  /\ ~log_content_changed
  /\ snap = Content

IsPrefix(a, b) == Len(a) <= Len(b) /\ \A i \in 1..Len(a) : a[i] = b[i]

\* C22: while the bytes appended in the session total at most the capacity,
\* every snapshot is a prefix of the next one (hence of every later one) and
\* is made of the appended bytes in append order.
C22_SnapshotsGrowMonotonically ==
  [][Len(appended') <= LOG_BUFFER_MAX_SIZE
       => /\ IsPrefix(snap, snap')
          /\ IsPrefix(snap', appended')]_vars

\* two snapshots, the second after further appends, before the buffer wraps
C22_Witness ==
  /\ caller.result = "rendered"
  /\ poll.prev_ret /\ poll.ret
  /\ poll.prev_seen >= 1
  /\ poll.seen > poll.prev_seen
  /\ Len(appended) <= LOG_BUFFER_MAX_SIZE
  /\ snap = appended

-----------------------------------------------------------------------------
(* One streaming session on responses the daemon is not expected to send *)

\* "ffffffffffffffff", "8000000000000000", "7fffffffffffffff", "ffffffff"
SizeAllF == [i \in 1..INT_HEX_DIGITS |-> 102]

SizeSignBit == <<56>> \o [i \in 1..(INT_HEX_DIGITS - 1) |-> 48]

SizeIntMax == <<55>> \o [i \in 1..(INT_HEX_DIGITS - 1) |-> 102]

SizeHuge == [i \in 1..8 |-> 102]

\* a response of the given kind: the frames the daemon put in it, and its body
WireScenario(kind, chunked, fs, body, tags) ==
  [kind     |-> kind,
   chunked  |-> chunked,
   terminal |-> FALSE,
   chunks   |-> <<fs>>,
   bytes    |-> HeaderBlock(chunked) \o body,
   tags     |-> Tagged(HeaderBlock(chunked), "H") \o tags]

\* a chunk of arbitrary bytes under an arbitrary size line
WireChunk(size_line, bytes) == size_line \o CRLF \o bytes \o CRLF

WireChunkTags(size_line, bytes) ==
  Tagged(size_line, "S") \o <<"R", "N">> \o Tagged(bytes, "X") \o <<"r", "n">>

Abc == <<97, 98, 99>>

\* the frame "abc" cut after the first byte of its payload
SplitHead == Slice(FrameBytes(Frame(1, Abc)), 0, 9)

SplitTail == Slice(FrameBytes(Frame(1, Abc)), 9, 11)

WireScenarios ==
  { \* chunk-size lines whose value does not fit the int
    WireScenario("negative_size", TRUE, <<>>,
                 WireChunk(SizeAllF, <<97, 98>>), WireChunkTags(SizeAllF, <<97, 98>>)),
    WireScenario("sign_bit", TRUE, <<>>,
                 WireChunk(SizeSignBit, <<97, 98>>), WireChunkTags(SizeSignBit, <<97, 98>>)),
    WireScenario("int_max", TRUE, <<>>,
                 WireChunk(SizeIntMax, <<97, 98>>), WireChunkTags(SizeIntMax, <<97, 98>>)),
    WireScenario("huge_size", TRUE, <<>>,
                 WireChunk(SizeHuge, <<97, 98>>), WireChunkTags(SizeHuge, <<97, 98>>)),
    \* a frame header declaring 0x7f000000 bytes, followed by two
    WireScenario("huge_frame", FALSE, <<>>,
                 <<1, 0, 0, 0, 127, 0, 0, 0, 97, 98>>,
                 Tagged(<<1, 0, 0, 0, 127, 0, 0, 0, 97, 98>>, "X")),
    \* one frame carried by two chunks
    WireScenario("split_frame", TRUE, <<Frame(1, Abc)>>,
                 WireChunk(<<57>>, SplitHead) \o WireChunk(<<50>>, SplitTail),
                 WireChunkTags(<<57>>, SplitHead) \o WireChunkTags(<<50>>, SplitTail)),
    \* a chunk, the zero-size chunk, and a chunk after it
    WireScenario("after_zero", TRUE, <<Frame(1, <<97, 98>>)>>,
                 ChunkBytes(<<Frame(1, <<97, 98>>)>>) \o ZeroChunk
                   \o ChunkBytes(<<Frame(1, <<99>>)>>),
                 ChunkTags(<<Frame(1, <<97, 98>>)>>) \o Tagged(ZeroChunk, "Z")
                   \o ChunkTags(<<Frame(1, <<99>>)>>)),
    \* the size line "zb", and the size line ""
    WireScenario("bad_size_line", TRUE, <<>>,
                 WireChunk(<<122, 98>>, FrameBytes(Frame(1, Abc))),
                 WireChunkTags(<<122, 98>>, FrameBytes(Frame(1, Abc)))),
    WireScenario("empty_size_line", TRUE, <<>>,
                 WireChunk(<<>>, FrameBytes(Frame(1, Abc))),
                 WireChunkTags(<<>>, FrameBytes(Frame(1, Abc)))) }

NextWire ==
  \/ CallStart(1, {[id |-> "c1", name |-> "web"]})
  \/ StartCheckRunning
  \/ StartConnect(WireScenarios)
  \/ StartInitState
  \/ StartSpawn
  \/ Worker(TRUE)
  \/ DaemonClose

SpecWire == Init /\ [][NextWire]_vars

\* the kind of response the session's socket carries
WireKind == IF log_stream.socket \in SocketIds THEN TheScenario.kind ELSE "none"

\* C23: whatever bytes the daemon sends on the streaming socket, chunk
\* decoding and frame demultiplexing never slice outside the accumulated
\* buffer and the worker is never aborted.
C23_NothingIsFatal == \A t \in ThreadIds : threads[t].pc # "aborted"

\* C25: a frame whose bytes span two chunks decoded in different worker
\* iterations is completed: once every byte has arrived the buffer holds the
\* frame's payload, as it does when both chunks arrive in one receive.
C25_SplitFrameCompleted ==
  (Consumed /\ WireKind = "split_frame" /\ "chunk" \in sockets[log_stream.socket].cuts)
     => /\ Content = get_log_content(OneReceive(TheScenario.bytes))
        /\ Content = Expected(TheScenario)

\* C26: after a chunk-size line of value 0 nothing that follows in the
\* response is decoded and nothing further is appended to the buffer.
C26_ZeroChunkEndsTransmission ==
  WireKind = "after_zero" => appendLog \in {<<>>, << <<97, 98>> >>}

\* C27: a chunk whose size line is empty or holds a character that is not a
\* hex digit leaves the buffer as it was: none of its bytes is appended.
C27_MalformedSizeLineWritesNothing ==
  WireKind \in {"bad_size_line", "empty_size_line"} => appendLog = <<>>

-----------------------------------------------------------------------------
(* The resource-list fetch: get_all_containers *)

\* most get_all_containers calls
MaxFetches == 1

\* what the daemon answers the list request with: nothing; a status line
\* without the blank line; "[]" after a header block; "{}" after a header
\* block; "[]" after a header ended by "\n\n"
FetchResponses ==
  { <<>>,
    StatusLine \o CRLF,
    HeaderBlock(FALSE) \o <<91, 93>>,
    HeaderBlock(FALSE) \o <<123, 125>>,
    StatusLine \o <<LF, LF>> \o <<91, 93>> }

FetchPlans ==
  [connect : [1..2 -> BOOLEAN], send : [1..2 -> BOOLEAN], resp : [1..2 -> FetchResponses]]

\* parse_containers_json: ok for a well-formed JSON array
parse_containers_json(json_body) == json_body \in {v \in JsonDocs : v[1] = 91}

\* a get_all_containers that sends the request again when the response cannot be decoded
resend_after_decode_failure_once(decoded) == ~decoded

\* get_all_containers: "if !json_ok { return nil, false }"
resend_after_decode_failure(decoded) == FALSE

\* a get_all_containers call is in progress
FetchPending == calls.fetch > calls.fetched

\* the caller calls get_all_containers(): send_docker_request builds the
\* request and enters send_http_request
CallGetAllContainers ==
  \E plan \in FetchPlans :
    /\ caller.pc = "idle"
    /\ ~FetchPending
    /\ calls.fetch < MaxFetches
    /\ Cardinality(FreeSockets) >= 2
    /\ caller' = [IdleCaller EXCEPT !.pc = "req_111"]
    /\ req' = [IdleReq EXCEPT !.plan = plan, !.reused = connection_established]
    /\ json' = NoJson
    /\ calls' = [calls EXCEPT !.fetch = @ + 1]
    /\ UNCHANGED <<log_stream, log_content_changed, connVars, sockets, threads,
                   ringHist, snap, snapOf, poll>>

\* get_all_containers after send_docker_request has returned: the failure of
\* the request, extract_json_from_response and parse_containers_json
FetchDecode ==
  /\ caller.pc = "idle"
  /\ caller.result = "request_done"
  /\ FetchPending
  /\ LET ex      == extract_json_from_response(req.response)
         decoded == req.ok /\ ex.ok
     IN IF req.ok /\ resend_after_decode_failure(decoded)
          THEN /\ caller' = [caller EXCEPT !.pc = "req_111", !.result = "none"]
               /\ UNCHANGED <<json, calls>>
          ELSE /\ caller' = [caller EXCEPT
                               !.result = IF decoded /\ parse_containers_json(ex.json_body)
                                            THEN "fetch_ok" ELSE "fetch_failed"]
               /\ json' = IF req.ok
                            THEN [NoJson EXCEPT !.input.kind = "fetched",
                                                !.input.bytes = req.response,
                                                !.calls = 1,
                                                !.json_body = ex.json_body,
                                                !.ok = ex.ok]
                            ELSE json
               /\ calls' = [calls EXCEPT !.fetched = @ + 1]
  /\ UNCHANGED <<log_stream, log_content_changed, connVars, sockets, threads, req,
                 ringHist, snap, snapOf, poll>>

NextFetch ==
  \/ CallGetAllContainers
  \/ ReqConnect
  \/ ReqSend
  \/ ReqReceive
  \/ ReqReceiveEnd
  \/ ReqFinish
  \/ FetchDecode

SpecFetch == Init /\ [][NextFetch]_vars

\* get_all_containers has returned
FetchReturned == caller.pc = "idle" /\ caller.result \in {"fetch_ok", "fetch_failed"}

\* the text holds neither "\r\n\r\n" nor "\n\n"
NoHeaderEnd(response) ==
  /\ strings_index(response, <<CR, LF, CR, LF>>) = -1
  /\ strings_index(response, <<LF, LF>>) = -1

\* C28: when the response accumulated by a request holds neither "\r\n\r\n"
\* nor "\n\n", extraction returns ok = false and get_all_containers returns
\* failure at once: the request is sent again only after a failed attempt of
\* the transport, never because a response could not be decoded.
C28_ProtocolErrorNotRetried ==
  /\ req.sends <= req.fails + 1
  /\ (FetchReturned /\ req.ok /\ NoHeaderEnd(req.response))
       => /\ caller.result = "fetch_failed"
          /\ json.calls = 1
          /\ ~json.ok
          /\ req.response = PlanAt(req.plan.resp, req.attempt)

\* the list request was answered with a status line and no blank line, on
\* the first attempt, and get_all_containers has returned failure
C28_Witness ==
  /\ FetchReturned
  /\ req.ok
  /\ req.response = StatusLine \o CRLF
  /\ req.attempt = 0
  /\ req.sends = 1
  /\ req.recvs >= 2
  /\ caller.result = "fetch_failed"
  /\ ~json.ok

-----------------------------------------------------------------------------
(* Streaming sessions beside the Connection Manager *)

\* one container viewed, its stream restarted once and stopped once
NextBoth ==
  \/ CallStart(2, {[id |-> "c1", name |-> "web"]})
  \/ StartCheckRunning
  \/ StartConnect(SessionScenarios)
  \/ StartInitState
  \/ StartSpawn
  \/ CallStop(1)
  \/ StopCheckRunning
  \/ StopClearRunning
  \/ StopCloseSocket
  \/ StopJoin
  \/ StopCleanStrings
  \/ Worker(FALSE)
  \/ DaemonClose
  \/ CallGetConnection
  \/ CallResetConnection

SpecBoth == Init /\ [][NextBoth]_vars

\* the request/response sockets, as the Connection Manager left them
RequestSockets ==
  [s \in SocketIds |-> IF sockets[s].kind = "request" THEN sockets[s] ELSE UnusedSocket]

\* C30: start, stop and every step of the worker leave global_connection,
\* connection_established and the request/response socket as they were (these
\* change only in a step of the Connection Manager, taken by the idle caller);
\* the streaming socket is opened for the session, unused before, and is never
\* the Connection Manager's socket.
C30_StreamingLeavesConnectionState ==
  /\ [](log_stream.socket \in SocketIds
          => /\ sockets[log_stream.socket].kind = "stream"
             /\ log_stream.socket # global_connection)
  /\ [][/\ (connVars' # connVars \/ RequestSockets' # RequestSockets)
             => /\ caller.pc = "idle"
                /\ caller' = caller
                /\ threads' = threads
                /\ log_stream' = log_stream
        /\ (caller.pc = "start_66" /\ caller'.pc = "start_76")
             => /\ sockets[caller'.sock].state = "unused"
                /\ sockets'[caller'.sock].kind = "stream"
                /\ caller'.sock # global_connection]_vars

\* a session was started and stopped, and its worker has returned, while the
\* connection established before it is still open
C30_Witness ==
  /\ caller.pc = "idle"
  /\ calls.stop >= 1
  /\ ~log_stream.running
  /\ connection_established
  /\ global_connection \in SocketIds
  /\ sockets[global_connection].state = "open"
  /\ \E s \in SocketIds : sockets[s].kind = "stream" /\ sockets[s].closes = 1
  /\ \E t \in ThreadIds : threads[t].pc = "done"

-----------------------------------------------------------------------------
(* The buffer under its mutex: append_to_log_buffer and get_log_content step
   by step, beside start_log_stream and stop_log_stream *)

\* a lock that is granted whoever holds the mutex
mutex_lock_granted_always(mutex) == TRUE

\* sync.mutex_lock returns once the mutex is free
mutex_lock_granted(mutex) == mutex = "free"

\* append_to_log_buffer: "if len(data) == 0 { return }", then sync.mutex_lock
AppendLock ==
  \E t \in ThreadIds :
    /\ threads[t].pc = "append"
    /\ IF Len(Head(threads[t].pending)) = 0
         THEN /\ threads' = [threads EXCEPT ![t].pending = Tail(@),
                                            ![t].pc = IF Tail(threads[t].pending) = <<>>
                                                        THEN "loop" ELSE "append"]
              /\ UNCHANGED log_stream
         ELSE /\ mutex_lock_granted(log_stream.mutex)
              /\ log_stream' = [log_stream EXCEPT !.mutex = "worker"]
              /\ threads' = [threads EXCEPT ![t].pc = "append_374",
                                            ![t].pending = <<<<>>, Head(@)>> \o Tail(@)]
    /\ UNCHANGED <<log_content_changed, connVars, sockets, caller, req, ringHist,
                   snapVars, calls>>

\* append_to_log_buffer: one pass of "for i in 0 ..< len(data)"; the bytes
\* written so far are kept before the bytes still to write
AppendByte ==
  \E t \in ThreadIds :
    /\ threads[t].pc = "append_374"
    /\ LET done == threads[t].pending[1]
           todo == threads[t].pending[2]
       IN /\ log_stream' = [log_stream EXCEPT !.buffer = PutByte(@, Head(todo))]
          /\ appended' = Append(appended, Head(todo))
          /\ threads' = [threads EXCEPT
                           ![t].pending = <<Append(done, Head(todo)), Tail(todo)>>
                                            \o Tail(Tail(threads[t].pending)),
                           ![t].pc = IF Tail(todo) = <<>> THEN "append_383"
                                     ELSE "append_374"]
    /\ UNCHANGED <<log_content_changed, connVars, sockets, caller, req, appendLog,
                   snapVars, calls>>

\* append_to_log_buffer: "log_content_changed = true", and the deferred unlock
AppendUnlock ==
  \E t \in ThreadIds :
    /\ threads[t].pc = "append_383"
    /\ log_content_changed' = TRUE
    /\ appendLog' = Append(appendLog, threads[t].pending[1])
    /\ log_stream' = [log_stream EXCEPT !.mutex = "free"]
    /\ threads' = [threads EXCEPT
                     ![t].pending = Tail(Tail(@)),
                     ![t].pc = IF Tail(Tail(threads[t].pending)) = <<>>
                                 THEN "loop" ELSE "append"]
    /\ UNCHANGED <<connVars, sockets, caller, req, appended, snapVars, calls>>

\* the caller calls get_log_content(): sync.mutex_lock
GetLock ==
  /\ caller.pc = "idle"
  /\ mutex_lock_granted(log_stream.mutex)
  /\ log_stream' = [log_stream EXCEPT !.mutex = "caller"]
  /\ caller' = [caller EXCEPT !.pc = "get_126"]
  /\ UNCHANGED <<log_content_changed, connVars, sockets, threads, req, ringHist,
                 snapVars, calls>>

\* get_log_content: the copy out of the buffer
GetCopy ==
  /\ caller.pc = "get_126"
  /\ snap' = get_log_content(log_stream.buffer)
  /\ snapOf' = appended
  /\ caller' = [caller EXCEPT !.pc = "get_unlock"]
  /\ UNCHANGED <<log_stream, log_content_changed, connVars, sockets, threads, req,
                 ringHist, json, poll, calls>>

\* get_log_content: the deferred unlock, and the return
GetUnlock ==
  /\ caller.pc = "get_unlock"
  /\ log_stream' = [log_stream EXCEPT !.mutex = "free"]
  /\ caller' = [caller EXCEPT !.pc = "idle", !.result = "snapshot"]
  /\ calls' = [calls EXCEPT !.snapshot = 1]
  /\ UNCHANGED <<log_content_changed, connVars, sockets, threads, req, ringHist,
                 snapVars>>

\* the daemon answers with three frames, "ab", "c" and "hello"
AbcHello == RawScenario(<<Frame(1, <<97, 98>>), Frame(2, <<99>>), Frame(1, Hello)>>)

\* and, for another session, with the frame "xy"
Xy == RawScenario(<<Frame(1, <<120, 121>>)>>)

MutexScenarios == {AbcHello, Xy}

\* one container viewed, its stream restarted once and stopped once
NextMutex ==
  \/ CallStart(2, {[id |-> "c1", name |-> "web"]})
  \/ StartCheckRunning
  \/ StartConnect(MutexScenarios)
  \/ StartInitState
  \/ StartSpawn
  \/ CallStop(1)
  \/ StopCheckRunning
  \/ StopClearRunning
  \/ StopCloseSocket
  \/ StopJoin
  \/ StopCleanStrings
  \/ WorkerSend
  \/ WorkerLoop
  \/ WorkerReceive(FALSE)
  \/ WorkerReceiveEnd
  \/ AppendLock
  \/ AppendByte
  \/ AppendUnlock
  \/ WorkerExit
  \/ WorkerReturn
  \/ DaemonClose
  \/ GetLock
  \/ GetCopy
  \/ GetUnlock

SpecMutex == Init /\ [][NextMutex]_vars

\* the worker writes the buffer in this step
AppendWriteStep == \E t \in ThreadIds : threads[t].pc = "append_374" /\ threads'[t] # threads[t]

\* the caller copies the buffer in this step
SnapshotCopyStep == caller.pc = "get_126" /\ caller'.pc = "get_unlock"

\* start_log_stream resets the buffer in this step
BufferResetStep == caller.pc = "start_76" /\ caller'.pc = "start_83"

\* C32: every access to the buffer's storage, write cursor and length is made
\* by a context that holds the mutex: the worker's append, the caller's
\* snapshot and the reset performed by start_log_stream.
C32_MutexDiscipline ==
  [][/\ AppendWriteStep => log_stream.mutex = "worker"
     /\ SnapshotCopyStep => log_stream.mutex = "caller"
     /\ BufferResetStep => log_stream.mutex = "caller"]_vars

\* C35: under every interleaving of the worker and the caller a snapshot is
\* the last (at most LOG_BUFFER_MAX_SIZE) bytes of the payloads of a whole
\* number of completed appends; it never holds part of one payload's append.
C35_SnapshotSeesWholeAppends ==
  [][SnapshotCopyStep
       => \E k \in 0..Len(appendLog) :
            snap' = LastN(Flatten(SubSeq(appendLog, 1, k)), LOG_BUFFER_MAX_SIZE)]_vars

\* a snapshot was taken between the second and the third append of one
\* receive, the worker waiting for the mutex with the third payload
C35_Witness ==
  /\ caller.pc = "get_unlock"
  /\ log_stream.mutex = "caller"
  /\ Len(appendLog) = 2
  /\ snap = <<97, 98, 99>>
  /\ \E t \in ThreadIds : threads[t].pc = "append" /\ threads[t].pending = <<Hello>>

\* C36: a snapshot holds only bytes appended since the session on
\* log_stream was initialised, all of them payload bytes of that session's
\* response (none before its worker's first append): nothing buffered or
\* appended for an earlier session is visible once the new one has started.
C36_SessionIsolation ==
  [][(SnapshotCopyStep /\ log_stream.socket \in SocketIds)
       => /\ snap' = LastN(appended, LOG_BUFFER_MAX_SIZE)
          /\ IsPrefix(appended, Flatten(PayloadsOf(TheScenario)))
          /\ appendLog = <<>> => snap' = <<>>]_vars

\* a session whose three frames were all received was replaced by a session
\* answered with "xy", and a snapshot of the new session has been taken
C36_Witness ==
  /\ caller.pc = "get_unlock"
  /\ calls.started = 2
  /\ log_stream.socket \in SocketIds
  /\ TheScenario = Xy
  /\ snap = <<120, 121>>
  /\ \E s \in SocketIds \ {log_stream.socket} :
       sockets[s].sc = AbcHello /\ sockets[s].rx = <<>>

-----------------------------------------------------------------------------
(* stop_log_stream against a worker that sleeps in its receive *)

\* receive_data_from_socket: recv finds the socket open with nothing to
\* read and the daemon's end open, and the thread sleeps in it (the socket has
\* no timeout: remove_socket_timeout)
WorkerBlock ==
  \E t \in ThreadIds :
    /\ threads[t].pc = "recv"
    /\ log_stream.socket \in SocketIds
    /\ sockets[log_stream.socket].state = "open"
    /\ sockets[log_stream.socket].rx = <<>>
    /\ ~sockets[log_stream.socket].eof
    /\ threads' = [threads EXCEPT ![t].pc = "recv_blocked"]
    /\ UNCHANGED <<log_stream, log_content_changed, connVars, sockets, caller, req,
                   ringHist, snapVars, calls>>

\* the daemon closes its end: the sleeping recv returns 0, "break"
WorkerWake ==
  \E t \in ThreadIds :
    /\ threads[t].pc = "recv_blocked"
    /\ log_stream.socket \in SocketIds
    /\ sockets[log_stream.socket].eof
    /\ threads' = [threads EXCEPT ![t].pc = "exit"]
    /\ UNCHANGED <<log_stream, log_content_changed, connVars, sockets, caller, req,
                   ringHist, snapVars, calls>>

\* the handle was closed by close_socket_connection while the thread sleeps
\* in recv on it: the operating system may make the recv return ("break"); it
\* is not bound to
WorkerWakeOnClose ==
  \E t \in ThreadIds :
    /\ threads[t].pc = "recv_blocked"
    /\ log_stream.socket \in SocketIds
    /\ sockets[log_stream.socket].state # "open"
    /\ ~sockets[log_stream.socket].eof
    /\ threads' = [threads EXCEPT ![t].pc = "exit"]
    /\ UNCHANGED <<log_stream, log_content_changed, connVars, sockets, caller, req,
                   ringHist, snapVars, calls>>

NextStop ==
  \/ CallStart(1, {[id |-> "c1", name |-> "web"]})
  \/ StartCheckRunning
  \/ StartConnect(StreamScenarios)
  \/ StartInitState
  \/ StartSpawn
  \/ CallStop(1)
  \/ StopCheckRunning
  \/ StopClearRunning
  \/ StopCloseSocket
  \/ StopJoin
  \/ StopCleanStrings
  \/ WorkerSend
  \/ WorkerLoop
  \/ WorkerReceive(FALSE)
  \/ WorkerReceiveEnd
  \/ WorkerBlock
  \/ WorkerWake
  \/ WorkerWakeOnClose
  \/ WorkerAppend
  \/ WorkerExit
  \/ WorkerReturn
  \/ DaemonClose

SpecStop == Init /\ [][NextStop]_vars

\* the caller and the worker thread take each step of their own; a receive
\* that finds bytes, a closed handle or the daemon's close returns; a recv
\* asleep on a handle closed under it is not bound to return
SpecStopLive ==
  /\ SpecStop
  /\ WF_vars(StopCheckRunning) /\ WF_vars(StopClearRunning) /\ WF_vars(StopCloseSocket)
  /\ WF_vars(StopJoin) /\ WF_vars(StopCleanStrings)
  /\ WF_vars(WorkerSend) /\ WF_vars(WorkerLoop) /\ WF_vars(WorkerReceiveEnd)
  /\ WF_vars(WorkerWake) /\ WF_vars(WorkerAppend) /\ WF_vars(WorkerExit)
  /\ WF_vars(WorkerReturn)

\* the caller is inside stop_log_stream
InStop == caller.pc \in {"stop_97", "stop_102", "stop_105", "stop_108", "stop_115"}

\* C33: a stop_log_stream call on a streaming session returns: closing the
\* socket makes the worker's receive return, the worker leaves its loop and
\* the join completes, also when the worker sleeps in a receive with no data.
C33_StopTerminates == InStop ~> ~InStop

-----------------------------------------------------------------------------
(* the sockets of the sessions *)

\* the sockets start_log_stream has opened and nothing has closed
OpenStreamSockets ==
  {s \in SocketIds : sockets[s].kind = "stream" /\ sockets[s].state = "open"}

\* C34: at most one streaming socket is open at any time, whatever the
\* sequence of start_log_stream and stop_log_stream calls, daemon closes and
\* send failures of the worker.
C34_OneStreamSocket == Cardinality(OpenStreamSockets) <= 1

-----------------------------------------------------------------------------
(* every way a socket is closed: requests, resets, sessions, failed starts *)

\* one plan for each course a request can take: an attempt fails at its
\* connect, fails at its send, is answered with nothing or is answered with
\* "[]"; the entries a course never consults are TRUE and "[]"
ClosePlans ==
  {plan \in Plans :
     /\ \A a \in 1..2 :
          /\ plan.resp[a] \in {<<>>, <<91, 93>>}
          /\ ~plan.connect[a] => plan.send[a]
          /\ ~(plan.connect[a] /\ plan.send[a]) => plan.resp[a] # <<>>
     /\ (plan.connect[1] /\ plan.send[1] /\ plan.resp[1] # <<>>)
          => (plan.connect[2] /\ plan.send[2] /\ plan.resp[2] # <<>>)}

\* one container viewed, its stream started twice and stopped twice, beside
\* requests and resets on the Connection Manager's connection; the worker ends
\* by itself when its send fails, and otherwise when a stop closes its socket
NextCloses ==
  \/ CallStart(2, {[id |-> "c1", name |-> "web"]})
  \/ StartCheckRunning
  \/ StartConnect(SessionScenarios)
  \/ StartInitState
  \/ StartSpawn
  \/ CallStop(2)
  \/ StopCheckRunning
  \/ StopClearRunning
  \/ StopCloseSocket
  \/ StopJoin
  \/ StopCleanStrings
  \/ Worker(FALSE)
  \/ CallGetConnection
  \/ CallResetConnection
  \/ CallSendRequestOf(ClosePlans, 1)
  \/ ReqConnect
  \/ ReqSend
  \/ ReqReceive
  \/ ReqReceiveEnd
  \/ ReqFinish

SpecCloses == Init /\ [][NextCloses]_vars

\* C37: no socket is closed twice, over every sequence of requests, resets,
\* start_log_stream and stop_log_stream calls, failed starts and worker exits.
C37_NoDoubleClose == \A s \in SocketIds : sockets[s].closes <= 1

\* a request socket closed by a reset, the socket of a session whose worker
\* ran and was joined, closed by the stop, a second stream socket closed, and
\* a further stop that found nothing to do
C37_Witness ==
  /\ caller.pc = "idle"
  /\ \E t \in ThreadIds : threads[t].pc = "done"
  /\ calls.started >= 1
  /\ caller.result = "stop_noop"
  /\ ~log_stream.running
  /\ log_stream.thread = NoThread
  /\ log_stream.socket \in SocketIds
  /\ sockets[log_stream.socket].closes = 1
  /\ \E s \in SocketIds \ {log_stream.socket} :
       sockets[s].kind = "stream" /\ sockets[s].closes = 1
  /\ \E s \in SocketIds : sockets[s].kind = "request" /\ sockets[s].closes = 1

-----------------------------------------------------------------------------
(* the shape of the ring buffer *)

\* C38: in every state write_pos is in 0..LOG_BUFFER_MAX_SIZE-1 and length in
\* 0..LOG_BUFFER_MAX_SIZE; length is the smaller of the capacity and the
\* number of bytes appended since the last reset, and write_pos is that number
\* modulo the capacity (so write_pos = length while length is below the capacity).
C38_RingShape ==
  /\ log_stream.buffer.write_pos \in 0..(LOG_BUFFER_MAX_SIZE - 1)
  /\ log_stream.buffer.length \in 0..LOG_BUFFER_MAX_SIZE
  /\ log_stream.buffer.length = MinOf({Len(appended), LOG_BUFFER_MAX_SIZE})
  /\ log_stream.buffer.write_pos = Len(appended) % LOG_BUFFER_MAX_SIZE
  /\ log_stream.buffer.length < LOG_BUFFER_MAX_SIZE
       => log_stream.buffer.write_pos = log_stream.buffer.length

\* the worker is inside an append that has wrapped the buffer of a restarted
\* session: the cursor is back behind the length
C38_Witness ==
  /\ \E t \in ThreadIds : threads[t].pc = "append_374"
  /\ calls.started = 2
  /\ Len(appended) > LOG_BUFFER_MAX_SIZE
  /\ log_stream.buffer.length = LOG_BUFFER_MAX_SIZE
  /\ log_stream.buffer.write_pos \in 1..(LOG_BUFFER_MAX_SIZE - 1)

====
